---- MODULE Spec2Model ----
(***************************************************************************)
(* Limit order book engine (impl::OrderBook) with its sliding trade        *)
(* window (impl::SlidingWindowStats), modelled from                        *)
(* src/impl/include/impl/order_book.hpp and src/impl/src/order_book.cpp.   *)
(*                                                                         *)
(* Pointers are handles: a pool slot with C++ index i is the handle i+1    *)
(* and nullptr is NULL.  MAX_ORDERS, MAX_PRICE_LEVELS and MAX_TRADES keep  *)
(* the source's names and roles (hash modulus and pool capacity) but are   *)
(* scaled down so that the state space is finite and small.                *)
(***************************************************************************)
EXTENDS Integers, Sequences, FiniteSets, TLC

\* ------------------------------------------------------------------------
\* Program constants (scaled) and model bounds
\* ------------------------------------------------------------------------
MAX_ORDERS == 3          \* order_book.hpp:18 (65536 in the source)
MAX_PRICE_LEVELS == 2    \* order_book.hpp:17 (2048 in the source)
MAX_TRADES == 6          \* order_book.hpp:322 (65536 in the source)
WINDOW_SECONDS == 1      \* order_book.hpp:323 (600 in the source)
SECONDARY_BUCKETS == WINDOW_SECONDS + 1   \* order_book.hpp:324 (600 + 1)

MaxOrderId == 4          \* order ids 1..MaxOrderId; ids congruent mod MAX_ORDERS collide
MaxPrice == 3            \* prices -1 and 1..MaxPrice; |p| mod MAX_PRICE_LEVELS collides
MaxQty == 2              \* order quantities 1..MaxQty, trade quantities 1..MaxQty
MaxOps == 3              \* public mutating calls in one behaviour
\* TLC integers are 32-bit signed: the 32-bit and 64-bit unsigned words of the
\* source are modelled by narrower ones, wide enough that only a subtraction
\* below zero (or a negative price cast to unsigned) wraps.
UINT32_MOD == 4096
UINT64_MOD == 65536
SIZE_MAX == UINT64_MOD - 1

NULL == 0

OrderIds == 1..MaxOrderId
Prices == {-1} \cup (1..MaxPrice)
Qtys == 1..MaxQty
Sides == {"BUY", "SELL"}
OrderHandles == 1..MAX_ORDERS
LevelHandles == 1..MAX_PRICE_LEVELS
TradeSlots == 0..(MAX_TRADES - 1)

Abs(x) == IF x < 0 THEN -x ELSE x
U32(x) == x % UINT32_MOD
U64(x) == x % UINT64_MOD

\* ------------------------------------------------------------------------
\* Records
\* ------------------------------------------------------------------------
\* struct Order, default member initialisers
NoOrder == [order_id |-> 0, price |-> 0, qty |-> 0, side |-> "BUY",
            prev |-> NULL, next |-> NULL]

\* Order(id, p, q, s): prev(this), next(this)
NewOrder(self, id, p, q, s) ==
  [order_id |-> id, price |-> p, qty |-> q, side |-> s, prev |-> self, next |-> self]

\* struct PriceLevel, default member initialisers
NoLevel == [price |-> 0, side |-> "BUY", total_qty |-> 0, order_count |-> 0,
            first_order |-> NULL, prev |-> NULL, next |-> NULL]

\* struct BBO, default member initialisers
NoBBO == [bid_price |-> 0, bid_qty |-> 0, ask_price |-> 0, ask_qty |-> 0]

\* ------------------------------------------------------------------------
\* MemoryPoolV3<T, N>: storage_ and the free index stack free_[0..free_count_)
\* A slot whose object was destroyed holds no observable value: it is kept
\* as the blank record.
\* ------------------------------------------------------------------------
RECURSIVE Iota(_)
Iota(n) == IF n = 0 THEN <<>> ELSE Append(Iota(n - 1), n)

NewPool(n, blank) == [storage_ |-> [h \in 1..n |-> blank], free_ |-> Iota(n)]

PoolExhausted(pool) == Len(pool.free_) = 0

\* uint32_t idx = free_[--free_count_]
PoolTop(pool) == pool.free_[Len(pool.free_)]

PoolAllocate(pool, obj) ==
  [storage_ |-> [pool.storage_ EXCEPT ![PoolTop(pool)] = obj],
   free_ |-> SubSeq(pool.free_, 1, Len(pool.free_) - 1)]

\* a deallocate that keeps the slot
PoolDeallocateLeak(pool, h, blank) == pool

PoolDeallocate(pool, h, blank) ==
  [storage_ |-> [pool.storage_ EXCEPT ![h] = blank],
   free_ |-> Append(pool.free_, h)]

\* ------------------------------------------------------------------------
\* TieredMemoryPool<T, N>: a hot tier and cold tiers built on first use.
\* A pointer handed out is the pair (tier, slot): tier 0 is the hot tier,
\* tier i the cold tier cold_tiers_[i - 1].
\* ------------------------------------------------------------------------
N == 2
num_cold_tiers == 3

\* a Tier whose unique_ptr holds no pool yet
NoPool == [storage_ |-> <<>>, free_ |-> <<>>]

NewTieredPool ==
  [hot_tier_ |-> NewPool(N, FALSE),
   cold_tiers_ |-> [i \in 1..num_cold_tiers |-> [pool |-> NoPool, active |-> FALSE]],
   alloc_cursor_ |-> 0]

Ptr(tier, slot) == [tier |-> tier, slot |-> slot]

\* the pointer that points at no tier
nullptr == Ptr(-1, 0)

\* Tier::get(): if (!active) { pool = make_unique<MemoryPool>(); active = true; }
TierGet(tier) == IF ~tier.active THEN [pool |-> NewPool(N, FALSE), active |-> TRUE] ELSE tier

\* for (i = alloc_cursor_; i < cold_tiers_.size(); ++i) { ... }
\* the pool afterwards and the pointer returned
RECURSIVE AllocateCold(_, _)
AllocateCold(tp, i) ==
  IF i >= Len(tp.cold_tiers_) THEN [pool |-> tp, obj |-> nullptr]
  ELSE
    LET tier == TierGet(tp.cold_tiers_[i + 1])
        tp1 == [tp EXCEPT !.cold_tiers_[i + 1] = tier]
    IN IF ~PoolExhausted(tier.pool)
       THEN [pool |-> [tp1 EXCEPT !.cold_tiers_[i + 1].pool = PoolAllocate(@, TRUE),
                                  !.alloc_cursor_ = i],
             obj |-> Ptr(i + 1, PoolTop(tier.pool))]
       ELSE AllocateCold(tp1, i + 1)

allocate(tp) ==
  IF ~PoolExhausted(tp.hot_tier_)
  THEN [pool |-> [tp EXCEPT !.hot_tier_ = PoolAllocate(@, TRUE)],
        obj |-> Ptr(0, PoolTop(tp.hot_tier_))]
  ELSE AllocateCold(tp, tp.alloc_cursor_)

\* hot_tier_.contains(obj), tier.pool->contains(obj): the pointer lies in
\* the storage of that tier
deallocate(tp, obj) ==
  IF obj = nullptr THEN tp
  ELSE IF obj.tier = 0
       THEN [tp EXCEPT !.hot_tier_ = PoolDeallocate(@, obj.slot, FALSE)]
  ELSE IF obj.tier <= Len(tp.cold_tiers_) /\ tp.cold_tiers_[obj.tier].active
       THEN [tp EXCEPT !.cold_tiers_[obj.tier].pool = PoolDeallocate(@, obj.slot, FALSE)]
  ELSE tp

PoolFreeCount(pool) == Len(pool.free_)

RECURSIVE SumOver(_, _)
SumOver(f, S) ==
  IF S = {} THEN 0
  ELSE LET x == CHOOSE y \in S : TRUE IN f[x] + SumOver(f, S \ {x})

freeCount(tp) ==
  PoolFreeCount(tp.hot_tier_)
    + SumOver([i \in DOMAIN tp.cold_tiers_ |->
                 IF tp.cold_tiers_[i].active THEN PoolFreeCount(tp.cold_tiers_[i].pool) ELSE 0],
              DOMAIN tp.cold_tiers_)

capacity(tp) == (1 + Len(tp.cold_tiers_)) * N

activeTierCount(tp) ==
  1 + Cardinality({i \in DOMAIN tp.cold_tiers_ : tp.cold_tiers_[i].active})

\* ------------------------------------------------------------------------
\* PriceLevelTree: a B+ tree from price to level id.
\* A node pointer is an integer: i > 0 is the leaf leaf[i], i < 0 the
\* internal node internal[-i], NULL the null pointer.  keys, values and
\* children hold the first count (count + 1 for children) array entries;
\* the entries behind them are never read.  wild_ is set once a node header
\* was overwritten with bytes the model does not follow: after that the
\* program reads memory outside its nodes.
\* ------------------------------------------------------------------------
MaxTreePrice == 8
TreePrices == 1..MaxTreePrice
LevelOf(price) == price + 10
kLeafMax == 2
kInternalMax == 2
RebuildMinLeafNodes == 3
MaxTreeOps == 9
MaxLeafNodes == MaxTreeOps
MaxInternalNodes == MaxTreeOps

\* LeafNode::reset(), InternalNode::reset()
NoLeaf == [count |-> 0, keys |-> <<>>, values |-> <<>>,
           next |-> NULL, prev |-> NULL, parent |-> NULL]
NoInternal == [count |-> 0, keys |-> <<>>, children |-> <<>>, parent |-> NULL]

NewTree ==
  [leaf |-> [i \in 1..MaxLeafNodes |-> NoLeaf],
   internal |-> [i \in 1..MaxInternalNodes |-> NoInternal],
   leaf_allocated_ |-> 0,
   internal_allocated_ |-> 0,
   root_ |-> NULL, leftmost_ |-> NULL, rightmost_ |-> NULL,
   size_ |-> 0, inserts_since_rebuild_ |-> 0, erases_since_rebuild_ |-> 0,
   auto_rebuild_ |-> TRUE, wild_ |-> FALSE]

\* clear(): the pools give every node back
clearTree(t) == [NewTree EXCEPT !.auto_rebuild_ = t.auto_rebuild_, !.wild_ = t.wild_]

NodeParent(t, node) == IF node > 0 THEN t.leaf[node].parent ELSE t.internal[-node].parent

SetParent(t, node, parent) ==
  IF node > 0 THEN [t EXCEPT !.leaf[node].parent = parent]
  ELSE [t EXCEPT !.internal[-node].parent = parent]

InsertAt(sq, pos, x) == SubSeq(sq, 1, pos) \o <<x>> \o SubSeq(sq, pos + 1, Len(sq))
RemoveAt(sq, pos) == SubSeq(sq, 1, pos) \o SubSeq(sq, pos + 2, Len(sq))

\* std::upper_bound(keys, keys + count, price) - keys, by bisection
RECURSIVE UpperBoundFrom(_, _, _, _)
UpperBoundFrom(keys, first, len, price) ==
  IF len = 0 THEN first
  ELSE LET half == len \div 2
           mid == first + half
       IN IF price < keys[mid + 1] THEN UpperBoundFrom(keys, first, half, price)
          ELSE UpperBoundFrom(keys, mid + 1, len - half - 1, price)

upperBound(node, price) == UpperBoundFrom(node.keys, 0, node.count, price)

\* std::lower_bound(keys, keys + count, price) - keys, by bisection
RECURSIVE LowerBoundFrom(_, _, _, _)
LowerBoundFrom(keys, first, len, price) ==
  IF len = 0 THEN first
  ELSE LET half == len \div 2
           mid == first + half
       IN IF keys[mid + 1] < price THEN LowerBoundFrom(keys, mid + 1, len - half - 1, price)
          ELSE LowerBoundFrom(keys, first, half, price)

lowerBound(node, price) == LowerBoundFrom(node.keys, 0, node.count, price)

\* while (node && !node->leaf) node = internal->children[upperBound(internal, price)]
RECURSIVE Descend(_, _, _)
Descend(t, node, price) ==
  IF node >= 0 THEN node
  ELSE Descend(t, t.internal[-node].children[upperBound(t.internal[-node], price) + 1], price)

findLeaf(t, price) == Descend(t, t.root_, price)

\* the result of find: found, and the level written to *out_level
find(t, price) ==
  IF t.root_ = NULL THEN [found |-> FALSE, level |-> NULL]
  ELSE
    LET leaf == findLeaf(t, price) IN
    IF leaf = NULL \/ t.leaf[leaf].count = 0 THEN [found |-> FALSE, level |-> NULL]
    ELSE
      LET idx == lowerBound(t.leaf[leaf], price) IN
      IF idx = t.leaf[leaf].count \/ t.leaf[leaf].keys[idx + 1] # price
      THEN [found |-> FALSE, level |-> NULL]
      ELSE [found |-> TRUE, level |-> t.leaf[leaf].values[idx + 1]]

insertIntoLeaf(t, leaf, pos, price, level) ==
  [t EXCEPT !.leaf[leaf].keys = InsertAt(@, pos, price),
            !.leaf[leaf].values = InsertAt(@, pos, level),
            !.leaf[leaf].count = @ + 1]

removeFromLeaf(t, leaf, pos) ==
  [t EXCEPT !.leaf[leaf].keys = RemoveAt(@, pos),
            !.leaf[leaf].values = RemoveAt(@, pos),
            !.leaf[leaf].count = @ - 1]

\* for (i = 0; i < parent->count + 1; ++i) if (children[i] == child) return i;  return limit;
findChildIndex(t, parent, child) ==
  LET node == t.internal[-parent]
      hits == {i \in 0..node.count : node.children[i + 1] = child}
  IN IF hits = {} THEN node.count + 1
     ELSE CHOOSE i \in hits : \A j \in hits : i <= j

\* NodePool<InternalNode>::allocate(): the next unused node, reset
AllocateInternal(t) ==
  [t EXCEPT !.internal_allocated_ = @ + 1,
            !.internal[t.internal_allocated_ + 1] = NoInternal]

AllocateLeaf(t) ==
  [t EXCEPT !.leaf_allocated_ = @ + 1,
            !.leaf[t.leaf_allocated_ + 1] = NoLeaf]

RECURSIVE AdoptChildren(_, _, _)
AdoptChildren(t, children, parent) ==
  IF children = <<>> THEN t
  ELSE AdoptChildren(IF Head(children) # NULL THEN SetParent(t, Head(children), parent) ELSE t,
                     Tail(children), parent)

\* The header bytes an out-of-bounds pointer write leaves behind: a clear
\* leaf flag with a count, or Wild for a set leaf flag or a count that
\* reaches behind the written entries.
Wild == -1
StaleHeaders == (0..kInternalMax) \cup {Wild}

\* memmove(&children[insert_pos + 2], &children[insert_pos + 1],
\*         (count - insert_pos + 1) * sizeof(NodeBase*)) moves one pointer more
\* than the node holds.  In a node with count = kInternalMax the last pointer
\* is written to children[kInternalMax + 2], behind the array: that is the
\* header (leaf, count) of the next InternalNode of the pool chunk.  The
\* pointer moved there was never written or is stale, so the header it
\* leaves is the input stale.
SmashNextHeader(t, parent, insert_pos, stale) ==
  LET victim == (-parent) + 1 IN
  IF /\ insert_pos < t.internal[-parent].count
     /\ t.internal[-parent].count + 2 > kInternalMax + 1
     /\ victim <= t.internal_allocated_
  THEN IF stale = Wild \/ stale > t.internal[victim].count
       THEN [t EXCEPT !.wild_ = TRUE]
       ELSE [t EXCEPT !.internal[victim].count = stale,
                      !.internal[victim].keys = SubSeq(@, 1, stale),
                      !.internal[victim].children = SubSeq(@, 1, stale + 1)]
  ELSE t

RECURSIVE insertIntoParent(_, _, _, _, _)
RECURSIVE splitInternal(_, _, _)

insertIntoParent(t, left, key, right, stale) ==
  LET parent == NodeParent(t, left) IN
  IF parent = NULL
  THEN LET t1 == AllocateInternal(t)
           new_root == -(t1.internal_allocated_)
           t2 == [t1 EXCEPT !.internal[-new_root] =
                    [count |-> 1, keys |-> <<key>>, children |-> <<left, right>>,
                     parent |-> NULL]]
       IN [SetParent(SetParent(t2, left, new_root), right, new_root)
             EXCEPT !.root_ = new_root]
  ELSE
    LET found == findChildIndex(t, parent, left)
        insert_pos == IF found > t.internal[-parent].count
                      THEN t.internal[-parent].count ELSE found
        t0 == SmashNextHeader(t, parent, insert_pos, stale)
        t1 == [t0 EXCEPT !.internal[-parent].keys = InsertAt(@, insert_pos, key),
                        !.internal[-parent].children = InsertAt(@, insert_pos + 1, right),
                        !.internal[-parent].count = @ + 1]
        t2 == SetParent(t1, right, parent)
    IN IF t2.internal[-parent].count > kInternalMax THEN splitInternal(t2, parent, stale) ELSE t2

splitInternal(t, node, stale) ==
  LET total == t.internal[-node].count
      mid == total \div 2
      promote_key == t.internal[-node].keys[mid + 1]
      t1 == AllocateInternal(t)
      new_node == -(t1.internal_allocated_)
      right_count == total - mid - 1
      right_children == SubSeq(t.internal[-node].children, mid + 2, total + 1)
      t2 == [t1 EXCEPT !.internal[-new_node].keys =
                          SubSeq(t.internal[-node].keys, mid + 2, total),
                       !.internal[-new_node].children = right_children,
                       !.internal[-new_node].count = right_count]
      t3 == AdoptChildren(t2, right_children, new_node)
      t4 == [t3 EXCEPT !.internal[-node].count = mid,
                       !.internal[-node].keys = SubSeq(@, 1, mid),
                       !.internal[-node].children = SubSeq(@, 1, mid + 1)]
  IN insertIntoParent(t4, node, promote_key, new_node, stale)

\* the tree afterwards; the new leaf is leaf_allocated_ of the result
splitLeaf(t, leaf, stale) ==
  LET t1 == AllocateLeaf(t)
      new_leaf == t1.leaf_allocated_
      total == t.leaf[leaf].count
      split == total \div 2
      t2 == [t1 EXCEPT !.leaf[new_leaf].keys = SubSeq(t.leaf[leaf].keys, split + 1, total),
                       !.leaf[new_leaf].values = SubSeq(t.leaf[leaf].values, split + 1, total),
                       !.leaf[new_leaf].count = total - split,
                       !.leaf[leaf].count = split,
                       !.leaf[leaf].keys = SubSeq(@, 1, split),
                       !.leaf[leaf].values = SubSeq(@, 1, split),
                       !.leaf[new_leaf].next = t.leaf[leaf].next,
                       !.leaf[new_leaf].prev = leaf]
      t3 == IF t.leaf[leaf].next # NULL
            THEN [t2 EXCEPT !.leaf[t.leaf[leaf].next].prev = new_leaf] ELSE t2
      t4 == [t3 EXCEPT !.leaf[leaf].next = new_leaf,
                       !.rightmost_ = IF @ = leaf THEN new_leaf ELSE @,
                       !.leaf[new_leaf].parent = t.leaf[leaf].parent]
  IN insertIntoParent(t4, leaf, t4.leaf[new_leaf].keys[1], new_leaf, stale)

RECURSIVE updateMinKeyAfterInsert(_, _, _)
updateMinKeyAfterInsert(t, node, new_min) ==
  LET parent == NodeParent(t, node) IN
  IF parent = NULL THEN t
  ELSE LET index == findChildIndex(t, parent, node) IN
       IF index = 0 THEN updateMinKeyAfterInsert(t, parent, new_min)
       ELSE [t EXCEPT !.internal[-parent].keys[index] = new_min]

\* the tree afterwards and the value returned; stale is the header a write
\* behind a children array leaves (SmashNextHeader)
insert(t, price, level, stale) ==
  IF t.root_ = NULL
  THEN LET t1 == AllocateLeaf(t)
           leaf == t1.leaf_allocated_
       IN [tree |-> [t1 EXCEPT !.leaf[leaf].keys = <<price>>,
                               !.leaf[leaf].values = <<level>>,
                               !.leaf[leaf].count = 1,
                               !.root_ = leaf, !.leftmost_ = leaf, !.rightmost_ = leaf,
                               !.size_ = 1,
                               !.inserts_since_rebuild_ = @ + 1],
           ok |-> TRUE]
  ELSE
    LET leaf == findLeaf(t, price) IN
    IF leaf = NULL THEN [tree |-> t, ok |-> FALSE]
    ELSE
      LET pos == lowerBound(t.leaf[leaf], price) IN
      IF pos < t.leaf[leaf].count /\ t.leaf[leaf].keys[pos + 1] = price
      THEN [tree |-> t, ok |-> FALSE]
      ELSE
        LET t1 == [insertIntoLeaf(t, leaf, pos, price, level)
                     EXCEPT !.size_ = @ + 1, !.inserts_since_rebuild_ = @ + 1]
            overfull == t1.leaf[leaf].count > kLeafMax
            t2 == IF overfull THEN splitLeaf(t1, leaf, stale) ELSE t1
            new_leaf == t2.leaf_allocated_
            moved == overfull /\ price >= t2.leaf[new_leaf].keys[1]
            target_leaf == IF moved THEN new_leaf ELSE leaf
            inserted_pos == IF moved THEN lowerBound(t2.leaf[new_leaf], price) ELSE pos
        IN [tree |-> IF inserted_pos = 0
                     THEN updateMinKeyAfterInsert(t2, target_leaf,
                                                  t2.leaf[target_leaf].keys[1])
                     ELSE t2,
            ok |-> TRUE]

RECURSIVE nextNonEmpty(_, _)
nextNonEmpty(t, leaf) ==
  IF leaf # NULL /\ t.leaf[leaf].count = 0 THEN nextNonEmpty(t, t.leaf[leaf].next) ELSE leaf

RECURSIVE prevNonEmpty(_, _)
prevNonEmpty(t, leaf) ==
  IF leaf # NULL /\ t.leaf[leaf].count = 0 THEN prevNonEmpty(t, t.leaf[leaf].prev) ELSE leaf

leftmostNonEmpty(t) == nextNonEmpty(t, t.leftmost_)
rightmostNonEmpty(t) == prevNonEmpty(t, t.rightmost_)

\* the leaf reached through children[0], and its first key
RECURSIVE firstKey(_, _)
firstKey(t, node) ==
  IF node = NULL THEN 0
  ELSE IF node > 0 THEN t.leaf[node].keys[1]
  ELSE firstKey(t, t.internal[-node].children[1])

\* the leaf loop of buildFromSorted: leaves of kLeafMax keys, linked in order
RECURSIVE BuildLeaves(_, _, _, _, _, _)
BuildLeaves(t, keys, values, idx, prev_leaf, level_nodes) ==
  IF idx >= Len(keys) THEN [tree |-> [t EXCEPT !.rightmost_ = prev_leaf], nodes |-> level_nodes]
  ELSE
    LET t1 == AllocateLeaf(t)
        leaf == t1.leaf_allocated_
        remaining == Len(keys) - idx
        count == IF kLeafMax < remaining THEN kLeafMax ELSE remaining
        t2 == [t1 EXCEPT !.leaf[leaf].keys = SubSeq(keys, idx + 1, idx + count),
                         !.leaf[leaf].values = SubSeq(values, idx + 1, idx + count),
                         !.leaf[leaf].count = count,
                         !.leaf[leaf].prev = prev_leaf]
        t3 == IF prev_leaf # NULL THEN [t2 EXCEPT !.leaf[prev_leaf].next = leaf] ELSE t2
        t4 == IF t3.leftmost_ = NULL THEN [t3 EXCEPT !.leftmost_ = leaf] ELSE t3
    IN BuildLeaves(t4, keys, values, idx + count, leaf, Append(level_nodes, leaf))

\* the inner loop of buildFromSorted: one level of internal nodes of up to
\* kInternalMax + 1 children each
RECURSIVE BuildLevel(_, _, _, _)
BuildLevel(t, level_nodes, child_idx, next_level) ==
  IF child_idx >= Len(level_nodes) THEN [tree |-> t, nodes |-> next_level]
  ELSE
    LET t1 == AllocateInternal(t)
        node == -(t1.internal_allocated_)
        remaining == Len(level_nodes) - child_idx
        child_count == IF kInternalMax + 1 < remaining THEN kInternalMax + 1 ELSE remaining
        children == SubSeq(level_nodes, child_idx + 1, child_idx + child_count)
        t2 == AdoptChildren(t1, children, node)
        t3 == [t2 EXCEPT !.internal[-node].count = child_count - 1,
                         !.internal[-node].children = children,
                         !.internal[-node].keys =
                            [i \in 1..(child_count - 1) |-> firstKey(t2, children[i + 1])]]
    IN BuildLevel(t3, level_nodes, child_idx + child_count, Append(next_level, node))

\* while (level_nodes.size() > 1) ...;  root_ = level_nodes[0]
RECURSIVE BuildLevels(_, _)
BuildLevels(t, level_nodes) ==
  IF Len(level_nodes) > 1
  THEN LET built == BuildLevel(t, level_nodes, 0, <<>>)
       IN BuildLevels(built.tree, built.nodes)
  ELSE [t EXCEPT !.root_ = level_nodes[1]]

buildFromSorted(t, keys, values) ==
  IF keys = <<>> THEN t
  ELSE LET leaves == BuildLeaves(t, keys, values, 0, NULL, <<>>)
       IN [BuildLevels(leaves.tree, leaves.nodes) EXCEPT !.size_ = Len(keys)]

\* the keys (field = "keys") or values of the non-empty leaves from leaf on
RECURSIVE CollectFrom(_, _, _)
CollectFrom(t, leaf, field) ==
  IF leaf = NULL THEN <<>>
  ELSE t.leaf[leaf][field] \o CollectFrom(t, nextNonEmpty(t, t.leaf[leaf].next), field)

rebuild(t) ==
  IF t.size_ = 0 THEN clearTree(t)
  ELSE buildFromSorted(clearTree(t),
                       CollectFrom(t, leftmostNonEmpty(t), "keys"),
                       CollectFrom(t, leftmostNonEmpty(t), "values"))

maybeRebuild(t) ==
  IF ~t.auto_rebuild_ THEN t
  ELSE IF t.leaf_allocated_ < RebuildMinLeafNodes THEN t
  ELSE LET leaf_capacity == t.leaf_allocated_ * kLeafMax IN
       IF leaf_capacity = 0 THEN t
       ELSE IF t.size_ * 3 < leaf_capacity /\ t.erases_since_rebuild_ > leaf_capacity \div 2
            THEN rebuild(t) ELSE t

\* the tree afterwards and the value returned
erase(t, price) ==
  IF t.root_ = NULL THEN [tree |-> t, ok |-> FALSE]
  ELSE
    LET leaf == findLeaf(t, price) IN
    IF leaf = NULL \/ t.leaf[leaf].count = 0 THEN [tree |-> t, ok |-> FALSE]
    ELSE
      LET pos == lowerBound(t.leaf[leaf], price) IN
      IF pos >= t.leaf[leaf].count \/ t.leaf[leaf].keys[pos + 1] # price
      THEN [tree |-> t, ok |-> FALSE]
      ELSE [tree |-> maybeRebuild([removeFromLeaf(t, leaf, pos)
                                     EXCEPT !.size_ = IF @ > 0 THEN @ - 1 ELSE @,
                                            !.erases_since_rebuild_ = @ + 1]),
            ok |-> TRUE]

treeSize(t) == t.size_

setAutoRebuild(t, enabled) == [t EXCEPT !.auto_rebuild_ = enabled]

NoEntry == [ok |-> FALSE, price |-> 0, level |-> NULL]

treeMin(t) ==
  LET leaf == leftmostNonEmpty(t) IN
  IF leaf = NULL THEN NoEntry
  ELSE [ok |-> TRUE, price |-> t.leaf[leaf].keys[1], level |-> t.leaf[leaf].values[1]]

treeMax(t) ==
  LET leaf == rightmostNonEmpty(t) IN
  IF leaf = NULL THEN NoEntry
  ELSE [ok |-> TRUE, price |-> t.leaf[leaf].keys[t.leaf[leaf].count],
        level |-> t.leaf[leaf].values[t.leaf[leaf].count]]

RECURSIVE NthFromMinLoop(_, _, _)
NthFromMinLoop(t, leaf, n) ==
  IF leaf = NULL THEN NoEntry
  ELSE IF n < t.leaf[leaf].count
       THEN [ok |-> TRUE, price |-> t.leaf[leaf].keys[n + 1],
             level |-> t.leaf[leaf].values[n + 1]]
       ELSE NthFromMinLoop(t, nextNonEmpty(t, t.leaf[leaf].next), n - t.leaf[leaf].count)

nthFromMin(t, n) == NthFromMinLoop(t, leftmostNonEmpty(t), n)

RECURSIVE NthFromMaxLoop(_, _, _)
NthFromMaxLoop(t, leaf, n) ==
  IF leaf = NULL THEN NoEntry
  ELSE IF n < t.leaf[leaf].count
       THEN LET idx == (t.leaf[leaf].count - 1) - n IN
            [ok |-> TRUE, price |-> t.leaf[leaf].keys[idx + 1],
             level |-> t.leaf[leaf].values[idx + 1]]
       ELSE NthFromMaxLoop(t, prevNonEmpty(t, t.leaf[leaf].prev), n - t.leaf[leaf].count)

nthFromMax(t, n) == NthFromMaxLoop(t, rightmostNonEmpty(t), n)

Reverse(sq) == [i \in 1..Len(sq) |-> sq[Len(sq) + 1 - i]]

Entries(node) == [i \in 1..node.count |-> <<node.keys[i], node.values[i]>>]

\* the (price, level) pairs handed to fn, in call order
RECURSIVE ForEachFromMinLoop(_, _, _)
ForEachFromMinLoop(t, leaf, remaining) ==
  IF leaf = NULL \/ remaining <= 0 THEN <<>>
  ELSE LET taken == IF remaining < t.leaf[leaf].count THEN remaining ELSE t.leaf[leaf].count
       IN SubSeq(Entries(t.leaf[leaf]), 1, taken)
          \o ForEachFromMinLoop(t, nextNonEmpty(t, t.leaf[leaf].next), remaining - taken)

forEachFromMin(t, k) == ForEachFromMinLoop(t, leftmostNonEmpty(t), k)

RECURSIVE ForEachFromMaxLoop(_, _, _)
ForEachFromMaxLoop(t, leaf, remaining) ==
  IF leaf = NULL \/ remaining <= 0 THEN <<>>
  ELSE LET taken == IF remaining < t.leaf[leaf].count THEN remaining ELSE t.leaf[leaf].count
       IN SubSeq(Reverse(Entries(t.leaf[leaf])), 1, taken)
          \o ForEachFromMaxLoop(t, prevNonEmpty(t, t.leaf[leaf].prev), remaining - taken)

forEachFromMax(t, k) == ForEachFromMaxLoop(t, rightmostNonEmpty(t), k)

\* ------------------------------------------------------------------------
\* State
\* ------------------------------------------------------------------------
VARIABLES
  order_pool_,        \* MemoryPoolV3<Order, MAX_ORDERS>
  level_pool_,        \* MemoryPoolV3<PriceLevel, MAX_PRICE_LEVELS>
  order_map_,         \* std::array<Order*, MAX_ORDERS>
  price_level_map_,   \* std::array<PriceLevel*, MAX_PRICE_LEVELS>
  bids_, asks_,       \* heads of the sorted circular level lists
  bbo_,               \* cached best bid / offer
  window_stats_,      \* SlidingWindowStats
  tiered_pool_,       \* a TieredMemoryPool<T, N>
  tiered_objs_,       \* the pointers its caller holds: allocated, not yet deallocated
  tree_,              \* a PriceLevelTree
  tree_entries_,      \* the level its caller inserted per price, NULL once erased (history)
  ring_stats_,        \* a RingBufferSlidingWindowStats
  impl_,              \* an Impl<Reader, Gateway>
  feed_,              \* the messages its reader has delivered, with the book each was applied to (history)
  signals_,           \* the calls of signalAllOrderBooks, with the messages processed before each (history)
  lastOp,             \* the public call that produced this state (history)
  nops                \* number of public calls so far (history, bounds the run)

bookVars == <<order_pool_, level_pool_, order_map_, price_level_map_, bids_, asks_,
              bbo_, window_stats_>>
tieredVars == <<tiered_pool_, tiered_objs_>>
treeVars == <<tree_, tree_entries_>>
ringVars == <<ring_stats_>>
implVars == <<impl_, feed_, signals_>>
vars == <<order_pool_, level_pool_, order_map_, price_level_map_, bids_, asks_,
          bbo_, window_stats_, tiered_pool_, tiered_objs_, tree_, tree_entries_,
          ring_stats_, impl_, feed_, signals_, lastOp, nops>>

\* The book as one value, so that operations are functions book -> book.
Book == [order_pool_ |-> order_pool_, level_pool_ |-> level_pool_,
         order_map_ |-> order_map_, price_level_map_ |-> price_level_map_,
         bids_ |-> bids_, asks_ |-> asks_, bbo_ |-> bbo_,
         window_stats_ |-> window_stats_]

Ord(b, h) == b.order_pool_.storage_[h]
Lvl(b, h) == b.level_pool_.storage_[h]

\* ------------------------------------------------------------------------
\* Price index: direct-indexed price_level_map_
\* ------------------------------------------------------------------------
\* abs_price % MAX_PRICE_LEVELS
priceToIndex(price) == Abs(price) % MAX_PRICE_LEVELS

findPriceLevel(b, price) ==
  LET level == b.price_level_map_[priceToIndex(price)] IN
  IF level # NULL /\ Lvl(b, level).price = price THEN level ELSE NULL

ListHead(b, side) == IF side = "BUY" THEN b.bids_ ELSE b.asks_

SetListHead(b, side, h) ==
  IF side = "BUY" THEN [b EXCEPT !.bids_ = h] ELSE [b EXCEPT !.asks_ = h]

\* price a is strictly better than price b on this side
Better(side, a, b) == IF side = "BUY" THEN a > b ELSE a < b

\* while (current->next != *head && current->next->price > new_level->price)
RECURSIVE AdvanceLevel(_, _, _, _, _)
AdvanceLevel(b, head, current, side, price) ==
  LET nxt == Lvl(b, current).next IN
  IF nxt # head /\ Better(side, Lvl(b, nxt).price, price)
  THEN AdvanceLevel(b, head, nxt, side, price)
  ELSE current

\* new_level is linked between prv and nxt (prv->next == nxt before the call)
LinkLevel(st, new_level, prv, nxt) ==
  LET s1 == [st EXCEPT ![new_level].prev = prv, ![new_level].next = nxt]
      s2 == [s1 EXCEPT ![prv].next = new_level]
  IN [s2 EXCEPT ![nxt].prev = new_level]

addPriceLevel(b, new_level) ==
  LET side == Lvl(b, new_level).side
      price == Lvl(b, new_level).price
      head == ListHead(b, side)
      b1 == [b EXCEPT !.price_level_map_[priceToIndex(price)] = new_level]
      st == b1.level_pool_.storage_
  IN IF head = NULL
     THEN SetListHead(
            [b1 EXCEPT !.level_pool_.storage_ =
               [st EXCEPT ![new_level].prev = new_level, ![new_level].next = new_level]],
            side, new_level)
     ELSE IF Better(side, price, st[head].price)
     THEN \* new best level: linked before the head, becomes the head
          SetListHead(
            [b1 EXCEPT !.level_pool_.storage_ = LinkLevel(st, new_level, st[head].prev, head)],
            side, new_level)
     ELSE \* insert after current
          LET current == AdvanceLevel(b1, head, head, side, price) IN
          [b1 EXCEPT !.level_pool_.storage_ =
             LinkLevel(st, new_level, current, st[current].next)]

removePriceLevel(b, level) ==
  LET l == Lvl(b, level)
      b1 == [b EXCEPT !.price_level_map_[priceToIndex(l.price)] = NULL]
      st == b1.level_pool_.storage_
      b2 == IF l.next = level
            THEN SetListHead(b1, l.side, NULL)
            ELSE LET s1 == [st EXCEPT ![l.prev].next = l.next]
                     s2 == [s1 EXCEPT ![l.next].prev = l.prev]
                     b3 == [b1 EXCEPT !.level_pool_.storage_ = s2]
                 IN IF ListHead(b1, l.side) = level
                    THEN SetListHead(b3, l.side, l.next)
                    ELSE b3
  IN [b2 EXCEPT !.level_pool_ = PoolDeallocate(@, level, NoLevel)]

\* ------------------------------------------------------------------------
\* BBO cache
\* ------------------------------------------------------------------------
updateBBOSide(b, update_bid, update_ask) ==
  LET bb1 == IF update_bid
             THEN IF b.bids_ # NULL
                  THEN [b.bbo_ EXCEPT !.bid_price = Lvl(b, b.bids_).price,
                                      !.bid_qty = Lvl(b, b.bids_).total_qty]
                  ELSE [b.bbo_ EXCEPT !.bid_price = 0, !.bid_qty = 0]
             ELSE b.bbo_
      bb2 == IF update_ask
             THEN IF b.asks_ # NULL
                  THEN [bb1 EXCEPT !.ask_price = Lvl(b, b.asks_).price,
                                   !.ask_qty = Lvl(b, b.asks_).total_qty]
                  ELSE [bb1 EXCEPT !.ask_price = 0, !.ask_qty = 0]
             ELSE bb1
  IN [b EXCEPT !.bbo_ = bb2]

updateBBO(b) == updateBBOSide(b, TRUE, TRUE)

\* ------------------------------------------------------------------------
\* FIFO rings of orders
\* ------------------------------------------------------------------------
\* the orders met from `start` along next until `start` is met again
RECURSIVE RingWalk(_, _, _, _)
RingWalk(st, start, current, fuel) ==
  IF fuel = 0 THEN <<>>
  ELSE IF st[current].next = start THEN <<current>>
  ELSE <<current>> \o RingWalk(st, start, st[current].next, fuel - 1)

Ring(b, start) == RingWalk(b.order_pool_.storage_, start, start, MAX_ORDERS)

RECURSIVE SumQty(_, _)
SumQty(b, ring) ==
  IF ring = <<>> THEN 0 ELSE Ord(b, Head(ring)).qty + SumQty(b, Tail(ring))

\* PriceLevel(p, s, order): the constructor runs updateQty() over the ring of order
NewLevel(b, self, p, s, order) ==
  [price |-> p, side |-> s,
   total_qty |-> U32(SumQty(b, Ring(b, order))),
   order_count |-> Len(Ring(b, order)),
   first_order |-> order, prev |-> self, next |-> self]

\* ------------------------------------------------------------------------
\* SlidingWindowStats: ring buffer of trades, running sums, and the two
\* index heaps with position tables.  A heap is the live prefix
\* max_heap_[0..max_heap_size_) as a sequence; heap position p is element p+1.
\* (sec_index_, sec_count_ and base_timestamp_ are written but never read by
\* any query and are left out.)
\* ------------------------------------------------------------------------
NS_PER_SEC == 1000000000

\* nanosecondsToUnixSeconds
nanosecondsToUnixSeconds(nanoseconds) == nanoseconds \div NS_PER_SEC

\* SlidingWindowStats(): default member initialisers and the constructor's fills
NewWindow ==
  [timestamps_ |-> [i \in TradeSlots |-> 0],
   prices_ |-> [i \in TradeSlots |-> 0],
   quantities_ |-> [i \in TradeSlots |-> 0],
   amounts_ |-> [i \in TradeSlots |-> 0],
   head_ |-> 0, count_ |-> 0, sum_qty_ |-> 0, sum_amount_ |-> 0,
   max_heap_ |-> <<>>, min_heap_ |-> <<>>,
   max_heap_pos_ |-> [i \in TradeSlots |-> SIZE_MAX],
   min_heap_pos_ |-> [i \in TradeSlots |-> SIZE_MAX],
   valid_ |-> [i \in TradeSlots |-> FALSE],
   sec_index_ |-> [i \in 0..(SECONDARY_BUCKETS - 1) |-> SIZE_MAX],
   sec_count_ |-> [i \in 0..(SECONDARY_BUCKETS - 1) |-> 0],
   base_timestamp_ |-> 0]

\* the heap order: in the max-heap a parent is not below its child
HeapOrdered(isMax, parentPrice, childPrice) ==
  IF isMax THEN parentPrice >= childPrice ELSE parentPrice <= childPrice

\* strict comparison used when sifting down
HeapBeats(isMax, a, b) == IF isMax THEN a > b ELSE a < b

\* std::swap(heap[i], heap[j]) followed by the two position updates
HeapSwap(hp, i, j) ==
  LET h1 == [hp.heap EXCEPT ![i + 1] = hp.heap[j + 1], ![j + 1] = hp.heap[i + 1]]
      p1 == [hp.pos EXCEPT ![h1[i + 1]] = i]
  IN [heap |-> h1, pos |-> [p1 EXCEPT ![h1[j + 1]] = j]]

\* bubble up from pos
RECURSIVE BubbleUp(_, _, _, _)
BubbleUp(hp, prices, pos, isMax) ==
  IF pos = 0 THEN hp
  ELSE LET parent == (pos - 1) \div 2 IN
       IF HeapOrdered(isMax, prices[hp.heap[parent + 1]], prices[hp.heap[pos + 1]])
       THEN hp
       ELSE BubbleUp(HeapSwap(hp, parent, pos), prices, parent, isMax)

\* pushToMaxHeap / pushToMinHeap
pushToHeap(hp, prices, trade_idx, isMax) ==
  LET pos == Len(hp.heap)
      hp1 == [heap |-> Append(hp.heap, trade_idx),
              pos |-> [hp.pos EXCEPT ![trade_idx] = pos]]
  IN BubbleUp(hp1, prices, pos, isMax)

\* restore heap property downwards from current
RECURSIVE SiftDown(_, _, _, _)
SiftDown(hp, prices, current, isMax) ==
  LET size == Len(hp.heap)
      left == 2 * current + 1
      right == 2 * current + 2
      l1 == IF left < size /\ HeapBeats(isMax, prices[hp.heap[left + 1]],
                                              prices[hp.heap[current + 1]])
            THEN left ELSE current
      l2 == IF right < size /\ HeapBeats(isMax, prices[hp.heap[right + 1]],
                                               prices[hp.heap[l1 + 1]])
            THEN right ELSE l1
  IN IF l2 = current THEN hp
     ELSE SiftDown(HeapSwap(hp, current, l2), prices, l2, isMax)

\* removeFromMaxHeap / removeFromMinHeap
removeFromHeap(hp, prices, trade_idx, isMax) ==
  LET pos == hp.pos[trade_idx]
      size == Len(hp.heap)
  IN IF pos = SIZE_MAX \/ pos >= size THEN hp
     ELSE LET p1 == [hp.pos EXCEPT ![trade_idx] = SIZE_MAX] IN
          IF pos = size - 1
          THEN [heap |-> SubSeq(hp.heap, 1, size - 1), pos |-> p1]
          ELSE LET last_idx == hp.heap[size]
                   h1 == SubSeq([hp.heap EXCEPT ![pos + 1] = last_idx], 1, size - 1)
                   p2 == [p1 EXCEPT ![last_idx] = pos]
               IN SiftDown([heap |-> h1, pos |-> p2], prices, pos, isMax)

MaxHeapOf(w) == [heap |-> w.max_heap_, pos |-> w.max_heap_pos_]
MinHeapOf(w) == [heap |-> w.min_heap_, pos |-> w.min_heap_pos_]

WithHeaps(w, mx, mn) ==
  [w EXCEPT !.max_heap_ = mx.heap, !.max_heap_pos_ = mx.pos,
            !.min_heap_ = mn.heap, !.min_heap_pos_ = mn.pos]

recordTrade(w, timestamp_ns, price, qty) ==
  LET timestamp == nanosecondsToUnixSeconds(timestamp_ns)
      \* static_cast<uint64_t>(price) * qty
      amount == U64(price * qty)
      idx == w.head_
      \* the slot still holds a trade: take it out of the heaps first
      w1 == IF w.valid_[idx]
            THEN WithHeaps(w, removeFromHeap(MaxHeapOf(w), w.prices_, idx, TRUE),
                              removeFromHeap(MinHeapOf(w), w.prices_, idx, FALSE))
            ELSE w
      w2 == [w1 EXCEPT !.timestamps_[idx] = timestamp, !.prices_[idx] = price,
                       !.quantities_[idx] = qty, !.amounts_[idx] = amount,
                       !.valid_[idx] = TRUE]
      w3 == WithHeaps(w2, pushToHeap(MaxHeapOf(w2), w2.prices_, idx, TRUE),
                          pushToHeap(MinHeapOf(w2), w2.prices_, idx, FALSE))
      w4 == [w3 EXCEPT !.sum_qty_ = U64(@ + qty),
                       !.sum_amount_ = U64(@ + amount),
                       !.base_timestamp_ = IF @ = 0 THEN timestamp ELSE @]
      bucket_idx == U64(timestamp - w4.base_timestamp_) % SECONDARY_BUCKETS
      w5 == IF w4.sec_index_[bucket_idx] = SIZE_MAX
            THEN [w4 EXCEPT !.sec_index_[bucket_idx] = idx, !.sec_count_[bucket_idx] = 1]
            ELSE [w4 EXCEPT !.sec_count_[bucket_idx] = U64(@ + 1)]
  IN [w5 EXCEPT !.head_ = (@ + 1) % MAX_TRADES,
                !.count_ = IF @ < MAX_TRADES THEN @ + 1 ELSE @]

\* ------------------------------------------------------------------------
\* Grid time and eviction
\* ------------------------------------------------------------------------
\* A grid time YYYYMMDDHHMMSS is kept as its decimal fields: the record is
\* what lines 17-22 of order_book.cpp extract from the number with % and /.
GridTime(year, month, day, hour, min, sec) ==
  [year |-> year, month |-> month, day |-> day, hour |-> hour, min |-> min, sec |-> sec]

\* days from 1970-01-01 to the civil date (proleptic Gregorian calendar)
DaysFromCivil(year, month, day) ==
  LET y == IF month <= 2 THEN year - 1 ELSE year
      era == y \div 400
      yoe == y - era * 400
      mp == IF month > 2 THEN month - 3 ELSE month + 9
      doy == (153 * mp + 2) \div 5 + day - 1
      doe == yoe * 365 + yoe \div 4 - yoe \div 100 + doy
  IN era * 146097 + doe - 719468

\* mktime(&timeinfo) with the system time zone UTC, as the source assumes
mktime(g) ==
  DaysFromCivil(g.year, g.month, g.day) * 86400 + g.hour * 3600 + g.min * 60 + g.sec

\* if (timestamp == -1) return 0; return static_cast<uint64_t>(timestamp);
yyyymmddhhmmssToUnixSeconds(g) ==
  IF mktime(g) = -1 THEN 0 ELSE U64(mktime(g))

\* index of the oldest retained trade
TailIdx(w) == (w.head_ + (MAX_TRADES - w.count_)) % MAX_TRADES

\* while (count_ > 0) { ... } : drop the tail until it lies in the window
RECURSIVE EvictLoop(_, _, _)
EvictLoop(w, cutoff_seconds, current_seconds) ==
  IF w.count_ = 0 THEN w
  ELSE
    LET tail_idx == TailIdx(w)
        tail_time == w.timestamps_[tail_idx]
    IN IF tail_time >= cutoff_seconds /\ tail_time < current_seconds THEN w
       ELSE
         LET w1 == [w EXCEPT !.sum_qty_ = U64(@ - w.quantities_[tail_idx]),
                             !.sum_amount_ = U64(@ - w.amounts_[tail_idx])]
             w2 == IF w1.valid_[tail_idx]
                   THEN [WithHeaps(w1,
                           removeFromHeap(MaxHeapOf(w1), w1.prices_, tail_idx, TRUE),
                           removeFromHeap(MinHeapOf(w1), w1.prices_, tail_idx, FALSE))
                         EXCEPT !.valid_[tail_idx] = FALSE]
                   ELSE w1
             bucket_idx == U64(tail_time - w2.base_timestamp_) % SECONDARY_BUCKETS
             w3 == IF w2.base_timestamp_ > 0 /\ w2.sec_count_[bucket_idx] > 0
                   THEN [w2 EXCEPT !.sec_count_[bucket_idx] = @ - 1,
                                   !.sec_index_[bucket_idx] =
                                      IF w2.sec_count_[bucket_idx] = 1 THEN SIZE_MAX ELSE @]
                   ELSE w2
         IN EvictLoop([w3 EXCEPT !.count_ = @ - 1], cutoff_seconds, current_seconds)

evictExpired(w, current_timestamp_yyyymmddhhmmss) ==
  LET current_seconds == yyyymmddhhmmssToUnixSeconds(current_timestamp_yyyymmddhhmmss)
      cutoff_seconds == U64(current_seconds - WINDOW_SECONDS)
  IN EvictLoop(w, cutoff_seconds, current_seconds)

\* while (size > 0 && !(valid_[top] && pos[top] == 0)) removeFromHeap(top)
RECURSIVE CleanTop(_, _, _, _)
CleanTop(hp, prices, valid, isMax) ==
  IF Len(hp.heap) = 0 THEN hp
  ELSE IF valid[hp.heap[1]] /\ hp.pos[hp.heap[1]] = 0 THEN hp
  ELSE IF hp.pos[hp.heap[1]] = SIZE_MAX \/ hp.pos[hp.heap[1]] >= Len(hp.heap)
       THEN hp   \* removeFromHeap returns at once: the source loops for ever
  ELSE CleanTop(removeFromHeap(hp, prices, hp.heap[1], isMax), prices, valid, isMax)

\* the heaps after updateMinMaxFromHeaps has cleaned their tops
updateMinMaxFromHeaps(w) ==
  WithHeaps(w, CleanTop(MaxHeapOf(w), w.prices_, w.valid_, TRUE),
               CleanTop(MinHeapOf(w), w.prices_, w.valid_, FALSE))

INT32_MIN == -(2147483647) - 1
INT32_MAX == 2147483647

\* if (count_ == 0) return 0; updateMinMaxFromHeaps(); return max_price_ - min_price_;
getPriceRange(w) ==
  IF w.count_ = 0 THEN 0
  ELSE LET w1 == updateMinMaxFromHeaps(w)
           max_price == IF Len(w1.max_heap_) > 0 THEN w1.prices_[w1.max_heap_[1]]
                        ELSE INT32_MIN
           min_price == IF Len(w1.min_heap_) > 0 THEN w1.prices_[w1.min_heap_[1]]
                        ELSE INT32_MAX
       IN max_price - min_price

getTotalVolume(w) == w.sum_qty_
getTotalAmount(w) == w.sum_amount_

\* ------------------------------------------------------------------------
\* RingBufferSlidingWindowStats (sliding_window_ring.hpp / .cpp): the ring
\* of trades with a left max-heap and a right min-heap of ring indices.
\* The heap arrays are kept whole, with what lies behind their sizes.
\* ------------------------------------------------------------------------
RING_MAX_TRADES == 4     \* sliding_window_ring.hpp:29 MAX_TRADES (65536 in the source)

RingSlots == 0..(RING_MAX_TRADES - 1)

\* RingBufferSlidingWindowStats(): member initialisers and the constructor's fills
NewRing ==
  [timestamps_ |-> [i \in RingSlots |-> 0],
   prices_ |-> [i \in RingSlots |-> 0],
   quantities_ |-> [i \in RingSlots |-> 0],
   amounts_ |-> [i \in RingSlots |-> 0],
   head_ |-> 0, count_ |-> 0, sum_qty_ |-> 0, sum_amount_ |-> 0,
   cached_min_price_ |-> INT32_MAX, cached_max_price_ |-> INT32_MIN,
   cache_valid_ |-> TRUE,
   left_heap_ |-> [i \in RingSlots |-> 0],
   right_heap_ |-> [i \in RingSlots |-> 0],
   left_heap_size_ |-> 0, right_heap_size_ |-> 0,
   trade_in_heap_ |-> [i \in RingSlots |-> -1],
   trade_expired_ |-> [i \in RingSlots |-> FALSE]]

\* std::swap(a[i], a[j])
SwapAt(a, i, j) == [a EXCEPT ![i] = a[j], ![j] = a[i]]

RECURSIVE siftUpLeft(_, _)
siftUpLeft(w, index) ==
  IF index = 0 THEN w
  ELSE LET parent == (index - 1) \div 2
       IN IF w.prices_[w.left_heap_[parent]] >= w.prices_[w.left_heap_[index]] THEN w
          ELSE siftUpLeft([w EXCEPT !.left_heap_ = SwapAt(@, parent, index)], parent)

\* the comparison of the right child reads right_heap_[right]
RECURSIVE siftDownLeft(_, _)
siftDownLeft(w, index) ==
  LET size == w.left_heap_size_
      left == 2 * index + 1
      right == 2 * index + 2
      largest1 == IF left < size
                     /\ w.prices_[w.left_heap_[left]] > w.prices_[w.left_heap_[index]]
                  THEN left ELSE index
      largest == IF right < size
                    /\ w.prices_[w.right_heap_[right]] > w.prices_[w.left_heap_[largest1]]
                 THEN right ELSE largest1
  IN IF largest = index THEN w
     ELSE siftDownLeft([w EXCEPT !.left_heap_ = SwapAt(@, index, largest)], largest)

RECURSIVE siftUpRight(_, _)
siftUpRight(w, index) ==
  IF index = 0 THEN w
  ELSE LET parent == (index - 1) \div 2
       IN IF w.prices_[w.right_heap_[parent]] <= w.prices_[w.right_heap_[index]] THEN w
          ELSE siftUpRight([w EXCEPT !.right_heap_ = SwapAt(@, parent, index)], parent)

RECURSIVE siftDownRight(_, _)
siftDownRight(w, index) ==
  LET size == w.right_heap_size_
      left == 2 * index + 1
      right == 2 * index + 2
      smallest1 == IF left < size
                      /\ w.prices_[w.right_heap_[left]] < w.prices_[w.right_heap_[index]]
                   THEN left ELSE index
      smallest == IF right < size
                     /\ w.prices_[w.right_heap_[right]] < w.prices_[w.right_heap_[smallest1]]
                  THEN right ELSE smallest1
  IN IF smallest = index THEN w
     ELSE siftDownRight([w EXCEPT !.right_heap_ = SwapAt(@, index, smallest)], smallest)

pushToLeftHeap(w, trade_idx) ==
  LET pos == w.left_heap_size_
  IN siftUpLeft([w EXCEPT !.left_heap_[pos] = trade_idx,
                          !.left_heap_size_ = @ + 1,
                          !.trade_in_heap_[trade_idx] = 0], pos)

pushToRightHeap(w, trade_idx) ==
  LET pos == w.right_heap_size_
  IN siftUpRight([w EXCEPT !.right_heap_[pos] = trade_idx,
                           !.right_heap_size_ = @ + 1,
                           !.trade_in_heap_[trade_idx] = 1], pos)

\* left_heap_[0] = left_heap_[left_heap_size_ - 1]; left_heap_size_--; siftDownLeft(0)
RemoveLeftTop(w) ==
  siftDownLeft([w EXCEPT !.left_heap_[0] = w.left_heap_[w.left_heap_size_ - 1],
                         !.left_heap_size_ = @ - 1], 0)

RemoveRightTop(w) ==
  siftDownRight([w EXCEPT !.right_heap_[0] = w.right_heap_[w.right_heap_size_ - 1],
                          !.right_heap_size_ = @ - 1], 0)

\* while (left_heap_size_ > right_heap_size_ + 1) move the left top to the right
RECURSIVE MoveLeftToRight(_)
MoveLeftToRight(w) ==
  IF w.left_heap_size_ > w.right_heap_size_ + 1
  THEN MoveLeftToRight(pushToRightHeap(RemoveLeftTop(w), w.left_heap_[0]))
  ELSE w

\* while (right_heap_size_ > left_heap_size_) move the right top to the left
RECURSIVE MoveRightToLeft(_)
MoveRightToLeft(w) ==
  IF w.right_heap_size_ > w.left_heap_size_
  THEN MoveRightToLeft(pushToLeftHeap(RemoveRightTop(w), w.right_heap_[0]))
  ELSE w

balanceHeaps(w) ==
  LET w1 == MoveRightToLeft(MoveLeftToRight(w))
      left_top == w1.left_heap_[0]
      right_top == w1.right_heap_[0]
  IN IF w1.left_heap_size_ > 0 /\ w1.right_heap_size_ > 0
        /\ w1.prices_[left_top] > w1.prices_[right_top]
     THEN pushToLeftHeap(pushToRightHeap(RemoveRightTop(RemoveLeftTop(w1)), left_top),
                         right_top)
     ELSE w1

isTradeValid(w, trade_idx) ==
  /\ trade_idx < RING_MAX_TRADES
  /\ w.timestamps_[trade_idx] # 0
  /\ ~w.trade_expired_[trade_idx]

RECURSIVE cleanTopOfLeftHeap(_)
cleanTopOfLeftHeap(w) ==
  IF w.left_heap_size_ = 0 \/ isTradeValid(w, w.left_heap_[0]) THEN w
  ELSE cleanTopOfLeftHeap([RemoveLeftTop(w) EXCEPT !.trade_in_heap_[w.left_heap_[0]] = -1])

RECURSIVE cleanTopOfRightHeap(_)
cleanTopOfRightHeap(w) ==
  IF w.right_heap_size_ = 0 \/ isTradeValid(w, w.right_heap_[0]) THEN w
  ELSE cleanTopOfRightHeap([RemoveRightTop(w) EXCEPT !.trade_in_heap_[w.right_heap_[0]] = -1])

\* void RingBufferSlidingWindowStats::recordTrade(timestamp_ns, price, qty)
ringRecordTrade(w, timestamp_ns, price, qty) ==
  LET timestamp == timestamp_ns \div NS_PER_SEC
      amount == U64(price * qty)
      idx == w.head_
      w1 == [w EXCEPT !.timestamps_[idx] = timestamp,
                      !.prices_[idx] = price,
                      !.quantities_[idx] = qty,
                      !.amounts_[idx] = amount,
                      !.sum_qty_ = U64(@ + qty),
                      !.sum_amount_ = U64(@ + amount),
                      !.cached_min_price_ = IF price < @ THEN price ELSE @,
                      !.cached_max_price_ = IF price > @ THEN price ELSE @]
      w2 == IF w1.left_heap_size_ = 0 \/ price <= w1.prices_[w1.left_heap_[0]]
            THEN pushToLeftHeap(w1, idx)
            ELSE pushToRightHeap(w1, idx)
  IN [balanceHeaps(w2) EXCEPT
        \* (head_ + 1) & (MAX_TRADES - 1), MAX_TRADES a power of two
        !.head_ = (@ + 1) % RING_MAX_TRADES,
        !.count_ = IF @ < RING_MAX_TRADES THEN @ + 1 ELSE @]

RingTailIdx(w) == (w.head_ + (RING_MAX_TRADES - w.count_)) % RING_MAX_TRADES

\* while (count_ > 0) { ... }: drop the tail and mark it expired until it lies
\* in the window
RECURSIVE RingEvictLoop(_, _, _)
RingEvictLoop(w, cutoff_seconds, current_seconds) ==
  IF w.count_ = 0 THEN w
  ELSE
    LET tail_idx == RingTailIdx(w)
        tail_time == w.timestamps_[tail_idx]
    IN IF tail_time >= cutoff_seconds /\ tail_time < current_seconds THEN w
       ELSE
         LET w1 == [w EXCEPT !.sum_qty_ = U64(@ - w.quantities_[tail_idx]),
                             !.sum_amount_ = U64(@ - w.amounts_[tail_idx]),
                             !.count_ = @ - 1]
             w2 == IF w.trade_in_heap_[tail_idx] # -1
                   THEN [w1 EXCEPT !.trade_expired_[tail_idx] = TRUE,
                                   !.trade_in_heap_[tail_idx] = -1]
                   ELSE w1
         IN RingEvictLoop(w2, cutoff_seconds, current_seconds)

\* void RingBufferSlidingWindowStats::evictExpired(current_timestamp_yyyymmddhhmmss)
ringEvictExpired(w, current_timestamp_yyyymmddhhmmss) ==
  LET current_ts == mktime(current_timestamp_yyyymmddhhmmss)
  IN IF current_ts = -1 THEN w
     ELSE [RingEvictLoop(w, U64(U64(current_ts) - WINDOW_SECONDS), U64(current_ts))
             EXCEPT !.cache_valid_ = FALSE]

\* int32_t RingBufferSlidingWindowStats::getMedianPrice() const: the object it
\* leaves behind and the value it returns.  (a + b) / 2 truncates toward zero;
\* prices here are positive.
ringGetMedianPrice(w) ==
  IF w.left_heap_size_ = 0 /\ w.right_heap_size_ = 0 THEN [stats |-> w, result |-> 0]
  ELSE
    LET w1 == cleanTopOfRightHeap(cleanTopOfLeftHeap(w))
        w2 == cleanTopOfRightHeap(cleanTopOfLeftHeap(balanceHeaps(w1)))
        left_max == w2.prices_[w2.left_heap_[0]]
        right_min == w2.prices_[w2.right_heap_[0]]
    IN [stats |-> w2,
        result |-> IF w2.left_heap_size_ = 0 /\ w2.right_heap_size_ = 0 THEN 0
                   ELSE IF w2.left_heap_size_ > w2.right_heap_size_ THEN left_max
                   ELSE IF w2.right_heap_size_ > w2.left_heap_size_ THEN right_min
                   ELSE (left_max + right_min) \div 2]

\* ------------------------------------------------------------------------
\* Impl<Reader, Gateway> (impl.hpp): the symbol table and the run loop.
\* A symbol is the sequence of its character codes, shorter than
\* SYMBOL_LEN - 1, so that strncpy stores it whole and strncmp compares it
\* whole.  order_books_[i] is the handle i + 1; every slot holds a book
\* after the constructor.
\* ------------------------------------------------------------------------
MAX_ORDER_BOOKS == 3     \* impl.hpp:22 (100 in the source)

BookSlots == 0..(MAX_ORDER_BOOKS - 1)

\* struct SymbolMapping, default member initialisers
NoMapping == [hash |-> 0, symbol |-> <<>>, used |-> FALSE]

\* Impl(reader, gateway, grids)
NewImpl(grids) ==
  [grids |-> grids, grid_idx_ |-> 0, last_msg_time_ |-> 0,
   symbol_mapping_ |-> [i \in BookSlots |-> NoMapping],
   num_used_order_books_ |-> 0,
   finished |-> FALSE]

\* for (i = 0; symbol[i] != '\0' && i < 16; i++) hash = hash * 31 + symbol[i]
RECURSIVE HashLoop(_, _, _)
HashLoop(symbol, i, hash) ==
  IF i > Len(symbol) THEN hash
  ELSE HashLoop(symbol, i + 1, U64(hash * 31 + symbol[i]))

hashSymbol(symbol) == HashLoop(symbol, 1, 0)

\* the first slot from i on whose mapping holds this hash and symbol, else nullptr
RECURSIVE FindFrom(_, _, _, _)
FindFrom(m, symbol, hash, i) ==
  IF i = MAX_ORDER_BOOKS THEN NULL
  ELSE IF m.symbol_mapping_[i].used /\ m.symbol_mapping_[i].hash = hash
          /\ m.symbol_mapping_[i].symbol = symbol
       THEN i + 1
       ELSE FindFrom(m, symbol, hash, i + 1)

findOrderBookForSymbol(m, symbol, hash) == FindFrom(m, symbol, hash, 0)

\* the mapping of slot i taken for the symbol
TakeSlot(m, symbol, hash, i) ==
  [impl |-> [m EXCEPT !.symbol_mapping_[i] = [hash |-> hash, symbol |-> symbol, used |-> TRUE],
                      !.num_used_order_books_ = @ + 1],
   ob |-> i + 1]

\* the first slot from i on that no symbol uses
RECURSIVE FirstAvailable(_, _)
FirstAvailable(m, i) ==
  IF i = MAX_ORDER_BOOKS THEN MAX_ORDER_BOOKS
  ELSE IF ~m.symbol_mapping_[i].used THEN i
  ELSE FirstAvailable(m, i + 1)

assignOrderBookToSymbol(m, symbol, hash, preferred_index) ==
  IF m.num_used_order_books_ >= MAX_ORDER_BOOKS THEN [impl |-> m, ob |-> NULL]
  ELSE IF ~m.symbol_mapping_[preferred_index].used
       THEN TakeSlot(m, symbol, hash, preferred_index)
  ELSE IF FirstAvailable(m, 0) < MAX_ORDER_BOOKS
       THEN TakeSlot(m, symbol, hash, FirstAvailable(m, 0))
  ELSE [impl |-> m, ob |-> NULL]

\* OrderBook* getOrderBook(const char* symbol): the object afterwards and the
\* book returned
getOrderBook(m, symbol) ==
  LET hash == hashSymbol(symbol)
      index == hash % MAX_ORDER_BOOKS
  IN IF m.symbol_mapping_[index].used /\ m.symbol_mapping_[index].hash = hash
     THEN IF m.symbol_mapping_[index].symbol = symbol
          THEN [impl |-> m, ob |-> index + 1]
          ELSE [impl |-> m, ob |-> findOrderBookForSymbol(m, symbol, hash)]
     ELSE assignOrderBookToSymbol(m, symbol, hash, index)

\* the symbols signalMetrics is called for, in slot order
signalAllOrderBooks(m) ==
  SelectSeq([i \in 1..MAX_ORDER_BOOKS |-> m.symbol_mapping_[i - 1]],
            LAMBDA mapping : mapping.used)

\* grid_idx_ < grids.size() && last_msg_time_ == grids[grid_idx_]
GridDue(m) ==
  /\ m.grid_idx_ < Len(m.grids)
  /\ m.last_msg_time_ = m.grids[m.grid_idx_ + 1]

\* ------------------------------------------------------------------------
\* Book engine operations (functions from book to book)
\* ------------------------------------------------------------------------
\* order_id % MAX_ORDERS
orderToIndex(order_id) == order_id % MAX_ORDERS

\* a lookup that trusts the slot and never compares the stored order_id
lookupOrderSlotOnly(b, order_id) == b.order_map_[orderToIndex(order_id)]

\* Order* order = order_map_[map_index]; !order || order->order_id != order_id
lookupOrder(b, order_id) ==
  LET order == b.order_map_[orderToIndex(order_id)] IN
  IF order = NULL \/ Ord(b, order).order_id # order_id THEN NULL ELSE order

\* addOrder's duplicate test: the slot of the id is occupied
slotTaken(b, order_id) == b.order_map_[orderToIndex(order_id)] # NULL

\* a join that also makes the new order the head of the level
appendAsHead(b, level, order, qty) ==
  LET first == Lvl(b, level).first_order
      st == b.order_pool_.storage_
      s1 == [st EXCEPT ![order].prev = st[first].prev, ![order].next = first]
      s2 == [s1 EXCEPT ![s1[first].prev].next = order]
      s3 == [s2 EXCEPT ![first].prev = order]
  IN [b EXCEPT !.order_pool_.storage_ = s3,
               !.level_pool_.storage_[level].first_order = order,
               !.level_pool_.storage_[level].total_qty = U32(@ + qty),
               !.level_pool_.storage_[level].order_count = U64(@ + 1)]

\* the order joins the ring of an existing level, before first_order (the tail)
appendToLevel(b, level, order, qty) ==
  LET first == Lvl(b, level).first_order
      st == b.order_pool_.storage_
      s1 == [st EXCEPT ![order].prev = st[first].prev, ![order].next = first]
      s2 == [s1 EXCEPT ![s1[first].prev].next = order]
      s3 == [s2 EXCEPT ![first].prev = order]
  IN [b EXCEPT !.order_pool_.storage_ = s3,
               !.level_pool_.storage_[level].total_qty = U32(@ + qty),
               !.level_pool_.storage_[level].order_count = U64(@ + 1)]

addOrder(b, order_id, price, qty, side) ==
  LET map_index == orderToIndex(order_id) IN
  IF slotTaken(b, order_id) THEN b
  ELSE IF PoolExhausted(b.order_pool_) THEN b
  ELSE
    LET order == PoolTop(b.order_pool_)
        b1 == [b EXCEPT !.order_pool_ =
                          PoolAllocate(@, NewOrder(order, order_id, price, qty, side)),
                        !.order_map_[map_index] = order]
        update_bid == side = "BUY" /\
                      ((b.bids_ # NULL /\ price >= Lvl(b, b.bids_).price) \/ b.bids_ = NULL)
        update_ask == side = "SELL" /\
                      ((b.asks_ # NULL /\ price <= Lvl(b, b.asks_).price) \/ b.asks_ = NULL)
        level == findPriceLevel(b1, price)
    IN IF level = NULL
       THEN IF PoolExhausted(b1.level_pool_)
            THEN \* roll the order back; the BBO is not refreshed
                 [b1 EXCEPT !.order_pool_ = PoolDeallocate(@, order, NoOrder),
                            !.order_map_[map_index] = NULL]
            ELSE LET new_level == PoolTop(b1.level_pool_)
                     b2 == [b1 EXCEPT !.level_pool_ =
                              PoolAllocate(@, NewLevel(b1, new_level, price, side, order))]
                 IN updateBBOSide(addPriceLevel(b2, new_level), update_bid, update_ask)
       ELSE updateBBOSide(appendToLevel(b1, level, order, qty), update_bid, update_ask)

\* the order leaves the ring it is linked in; the counters of `level` are adjusted
unlinkFromLevel(b, level, order) ==
  LET o == Ord(b, order)
      st == b.order_pool_.storage_
      s1 == [st EXCEPT ![o.prev].next = o.next]
      s2 == [s1 EXCEPT ![o.next].prev = o.prev]
  IN [b EXCEPT !.order_pool_.storage_ = s2,
               !.level_pool_.storage_[level].total_qty = U32(@ - o.qty),
               !.level_pool_.storage_[level].order_count = U64(@ - 1),
               !.level_pool_.storage_[level].first_order =
                  IF @ = order THEN o.next ELSE @]

deleteOrder(b, order_id, side) ==
  LET map_index == orderToIndex(order_id)
      order == lookupOrder(b, order_id)
  IN IF order = NULL THEN b
     ELSE
       LET o == Ord(b, order)
           level == findPriceLevel(b, o.price)
           update_bid == side = "BUY" /\ b.bids_ # NULL /\ Lvl(b, b.bids_).price = o.price
           update_ask == side = "SELL" /\ b.asks_ # NULL /\ Lvl(b, b.asks_).price = o.price
       IN IF level = NULL THEN b
          ELSE
            LET b1 == IF o.next = order
                      THEN removePriceLevel(b, level)
                      ELSE unlinkFromLevel(b, level, order)
                b2 == [b1 EXCEPT !.order_map_[map_index] = NULL,
                                 !.order_pool_ = PoolDeallocate(@, order, NoOrder)]
            IN updateBBOSide(b2, update_bid, update_ask)

modifyOrder(b, order_id, price, qty, side) ==
  LET order == lookupOrder(b, order_id) IN
  IF order = NULL THEN b
  ELSE
    LET o == Ord(b, order) IN
    IF o.price # price
    THEN LET update_bid == side = "BUY" /\ b.bids_ # NULL /\
                           (o.price = Lvl(b, b.bids_).price \/ price >= Lvl(b, b.bids_).price)
             update_ask == side = "SELL" /\ b.asks_ # NULL /\
                           (o.price = Lvl(b, b.asks_).price \/ price <= Lvl(b, b.asks_).price)
             b1 == addOrder(deleteOrder(b, order_id, side), order_id, price, qty, side)
         IN updateBBOSide(b1, update_bid, update_ask)
    ELSE LET level == findPriceLevel(b, price) IN
         IF level = NULL THEN b
         ELSE LET b1 == [b EXCEPT !.order_pool_.storage_[order].qty = qty,
                                  !.level_pool_.storage_[level].total_qty =
                                     U32(@ + qty - o.qty)]
                  update_bid == side = "BUY" /\ b.bids_ # NULL /\
                                Lvl(b, b.bids_).price = price
                  update_ask == side = "SELL" /\ b.asks_ # NULL /\
                                Lvl(b, b.asks_).price = price
              IN updateBBOSide(b1, update_bid, update_ask)

processTrade(b, order_id, price, qty, side, timestamp) ==
  LET order == lookupOrder(b, order_id) IN
  IF order = NULL THEN b
  ELSE
    LET b1 == [b EXCEPT !.window_stats_ = recordTrade(@, timestamp, price, qty)]
        update_bid == side = "BUY" /\ b.bids_ # NULL /\ Lvl(b, b.bids_).price = price
        update_ask == side = "SELL" /\ b.asks_ # NULL /\ Lvl(b, b.asks_).price = price
        b2 == IF Ord(b1, order).qty <= qty
              THEN deleteOrder(b1, order_id, side)
              ELSE \* partial fill
                   LET b3 == [b1 EXCEPT !.order_pool_.storage_[order].qty = @ - qty]
                       level == findPriceLevel(b3, price)
                   IN IF level = NULL THEN b3
                      ELSE [b3 EXCEPT !.level_pool_.storage_[level].total_qty = U32(@ - qty)]
    IN updateBBOSide(b2, update_bid, update_ask)

\* for (Order* order : order_map_) if (order) deallocate(order)
RECURSIVE freeMappedOrders(_, _)
freeMappedOrders(pool_map, i) ==
  IF i = MAX_ORDERS THEN pool_map[1]
  ELSE freeMappedOrders(
         IF pool_map[2][i] # NULL
         THEN <<PoolDeallocate(pool_map[1], pool_map[2][i], NoOrder), pool_map[2]>>
         ELSE pool_map, i + 1)

\* while (bids_) { ... } : unlink and free the head until the list is empty
RECURSIVE clearLevels(_, _)
clearLevels(b, side) ==
  LET head == ListHead(b, side) IN
  IF head = NULL THEN b
  ELSE LET l == Lvl(b, head) IN
       IF l.next = head
       THEN SetListHead([b EXCEPT !.level_pool_ = PoolDeallocate(@, head, NoLevel)],
                        side, NULL)
       ELSE LET st == b.level_pool_.storage_
                s1 == [st EXCEPT ![l.prev].next = l.next]
                s2 == [s1 EXCEPT ![l.next].prev = l.prev]
                b1 == SetListHead([b EXCEPT !.level_pool_.storage_ = s2], side, l.next)
            IN clearLevels([b1 EXCEPT !.level_pool_ = PoolDeallocate(@, head, NoLevel)],
                           side)

\* a clear that forgets to reconstruct the trade window
clearKeepsWindow(b) ==
  LET b1 == [b EXCEPT !.order_pool_ = freeMappedOrders(<<b.order_pool_, b.order_map_>>, 0),
                      !.order_map_ = [i \in 0..(MAX_ORDERS - 1) |-> NULL],
                      !.price_level_map_ = [i \in 0..(MAX_PRICE_LEVELS - 1) |-> NULL]]
  IN updateBBO(clearLevels(clearLevels(b1, "BUY"), "SELL"))

clear(b) ==
  LET b1 == [b EXCEPT !.order_pool_ = freeMappedOrders(<<b.order_pool_, b.order_map_>>, 0),
                      !.order_map_ = [i \in 0..(MAX_ORDERS - 1) |-> NULL],
                      !.price_level_map_ = [i \in 0..(MAX_PRICE_LEVELS - 1) |-> NULL]]
      b2 == clearLevels(clearLevels(b1, "BUY"), "SELL")
  IN updateBBO([b2 EXCEPT !.window_stats_ = NewWindow])

\* OrderBook::OrderBook(const char* symbol)
NewBook ==
  [order_pool_ |-> NewPool(MAX_ORDERS, NoOrder),
   level_pool_ |-> NewPool(MAX_PRICE_LEVELS, NoLevel),
   order_map_ |-> [i \in 0..(MAX_ORDERS - 1) |-> NULL],
   price_level_map_ |-> [i \in 0..(MAX_PRICE_LEVELS - 1) |-> NULL],
   bids_ |-> NULL, asks_ |-> NULL, bbo_ |-> NoBBO, window_stats_ |-> NewWindow]

\* ------------------------------------------------------------------------
\* The state machine: one action per public mutating call
\* ------------------------------------------------------------------------
TradeTimes == {NS_PER_SEC + 1}

Install(b) ==
  /\ order_pool_' = b.order_pool_
  /\ level_pool_' = b.level_pool_
  /\ order_map_' = b.order_map_
  /\ price_level_map_' = b.price_level_map_
  /\ bids_' = b.bids_
  /\ asks_' = b.asks_
  /\ bbo_' = b.bbo_
  /\ window_stats_' = b.window_stats_
  /\ UNCHANGED <<tieredVars, treeVars, ringVars, implVars>>

\* the pool slots that hold an object
Allocated(pool) == {h \in DOMAIN pool.storage_ : \A i \in DOMAIN pool.free_ : pool.free_[i] # h}

\* an order with this id exists
IsLive(b, id) == \E h \in Allocated(b.order_pool_) : Ord(b, h).order_id = id

\* lastOp: the call, its order id, and whether that id was live when it was made
Call(op, id, live) == [op |-> op, order_id |-> id, live |-> live]

Step == nops < MaxOps /\ nops' = nops + 1

Init ==
  /\ order_pool_ = NewBook.order_pool_
  /\ level_pool_ = NewBook.level_pool_
  /\ order_map_ = NewBook.order_map_
  /\ price_level_map_ = NewBook.price_level_map_
  /\ bids_ = NewBook.bids_
  /\ asks_ = NewBook.asks_
  /\ bbo_ = NewBook.bbo_
  /\ window_stats_ = NewBook.window_stats_
  /\ tiered_pool_ = NewTieredPool
  /\ tiered_objs_ = {}
  /\ tree_ = NewTree
  /\ tree_entries_ = [p \in TreePrices |-> NULL]
  /\ ring_stats_ = NewRing
  /\ impl_ = NewImpl(<<>>)
  /\ feed_ = <<>>
  /\ signals_ = <<>>
  /\ lastOp = Call("new", 0, FALSE)
  /\ nops = 0

AddOrder ==
  \E id \in OrderIds, p \in Prices, q \in Qtys, s \in Sides :
    /\ Step
    /\ Install(addOrder(Book, id, p, q, s))
    /\ lastOp' = Call("addOrder", id, IsLive(Book, id))

ModifyOrder ==
  \E id \in OrderIds, p \in Prices, q \in Qtys, s \in Sides :
    /\ Step
    /\ Install(modifyOrder(Book, id, p, q, s))
    /\ lastOp' = Call("modifyOrder", id, IsLive(Book, id))

DeleteOrder ==
  \E id \in OrderIds, s \in Sides :
    /\ Step
    /\ Install(deleteOrder(Book, id, s))
    /\ lastOp' = Call("deleteOrder", id, IsLive(Book, id))

ProcessTrade ==
  \E id \in OrderIds, p \in Prices, q \in Qtys, s \in Sides, t \in TradeTimes :
    /\ Step
    /\ Install(processTrade(Book, id, p, q, s, t))
    /\ lastOp' = Call("processTrade", id, IsLive(Book, id))

Clear ==
  /\ Step
  /\ Install(clear(Book))
  /\ lastOp' = Call("clear", 0, FALSE)

Next == AddOrder \/ ModifyOrder \/ DeleteOrder \/ ProcessTrade \/ Clear

Spec == Init /\ [][Next]_vars

\* ------------------------------------------------------------------------
\* Observations used by the properties
\* ------------------------------------------------------------------------
\* the level handles of one side's list, from the head along next
LevelList(b, side) ==
  IF ListHead(b, side) = NULL THEN <<>>
  ELSE RingWalk(b.level_pool_.storage_, ListHead(b, side), ListHead(b, side),
                MAX_PRICE_LEVELS)

SeqToSet(sq) == {sq[i] : i \in DOMAIN sq}

LevelsOf(b, side) == SeqToSet(LevelList(b, side))

AllLevels(b) == LevelsOf(b, "BUY") \cup LevelsOf(b, "SELL")

\* the FIFO of a level: its orders from first_order along next
Fifo(b, level) == Ring(b, Lvl(b, level).first_order)

\* the levels of the lists whose FIFO holds the order
LevelsHolding(b, order) == {l \in AllLevels(b) : order \in SeqToSet(Fifo(b, l))}

BestPrice(b, side) ==
  CHOOSE p \in {Lvl(b, l).price : l \in LevelsOf(b, side)} :
    \A l \in LevelsOf(b, side) : ~Better(side, Lvl(b, l).price, p)

\* ------------------------------------------------------------------------
\* C1.  After any sequence of calls the cached BBO is the best
\* level of each side: bid_price is the highest BUY level price and bid_qty
\* that level's total_qty, ask_price the lowest SELL level price and ask_qty
\* that level's total_qty, and both fields are 0 for a side without levels.
\* ------------------------------------------------------------------------
BBOSideMatches(price, qty, side) ==
  IF LevelsOf(Book, side) = {}
  THEN price = 0 /\ qty = 0
  ELSE /\ price = BestPrice(Book, side)
       /\ \E l \in LevelsOf(Book, side) :
            Lvl(Book, l).price = price /\ Lvl(Book, l).total_qty = qty

C1_BBOMatchesBestLevels ==
  /\ BBOSideMatches(bbo_.bid_price, bbo_.bid_qty, "BUY")
  /\ BBOSideMatches(bbo_.ask_price, bbo_.ask_qty, "SELL")

\* ------------------------------------------------------------------------
\* C2.  Every level's total_qty is the sum of the qty of the
\* orders in its FIFO and its order_count is the number of those orders.
\* ------------------------------------------------------------------------
C2_LevelTotalsMatchFifo ==
  \A l \in AllLevels(Book) :
    /\ Lvl(Book, l).total_qty = SumQty(Book, Fifo(Book, l))
    /\ Lvl(Book, l).order_count = Len(Fifo(Book, l))

\* ------------------------------------------------------------------------
\* C3.  Every live order is linked into the FIFO of exactly one
\* level; that level has the order's price and side, is in that side's list
\* and is what the price index returns for the order's price.
\* ------------------------------------------------------------------------
C3_LiveOrdersIndexed ==
  \A h \in Allocated(order_pool_) :
    /\ lookupOrder(Book, Ord(Book, h).order_id) = h
    /\ Cardinality(LevelsHolding(Book, h)) = 1
    /\ \A l \in LevelsHolding(Book, h) :
         /\ Lvl(Book, l).price = Ord(Book, h).price
         /\ Lvl(Book, l).side = Ord(Book, h).side
         /\ l \in LevelsOf(Book, Ord(Book, h).side)
         /\ findPriceLevel(Book, Ord(Book, h).price) = l

\* ------------------------------------------------------------------------
\* C4.  addOrder with an id that is not live makes the id live
\* whenever both pools have a free slot, also when the id shares its
\* order-index slot with a live order (ids congruent modulo MAX_ORDERS).
\* ------------------------------------------------------------------------
PoolsHaveRoom(b) == ~PoolExhausted(b.order_pool_) /\ ~PoolExhausted(b.level_pool_)

C4_AddMakesLive ==
  [][(lastOp'.op = "addOrder" /\ ~lastOp'.live /\ PoolsHaveRoom(Book))
       => IsLive(Book', lastOp'.order_id)]_vars

\* ------------------------------------------------------------------------
\* C5.  A side's level list never holds two levels with the same
\* price.
\* ------------------------------------------------------------------------
C5_LevelPricesDistinct ==
  \A s \in Sides : \A i, j \in DOMAIN LevelList(Book, s) :
    i # j => Lvl(Book, LevelList(Book, s)[i]).price # Lvl(Book, LevelList(Book, s)[j]).price


\* ------------------------------------------------------------------------
\* C6.  deleteOrder of a live id always removes the order: the id
\* is not live afterwards, a level that held only this order is gone from
\* the lists and from the price index, and any other holding level has lost
\* exactly the order's qty and one order.
\* ------------------------------------------------------------------------
DeleteRemoved(b, after, order) ==
  /\ ~IsLive(after, Ord(b, order).order_id)
  /\ \A l \in LevelsHolding(b, order) :
       IF Lvl(b, l).order_count = 1
       THEN l \notin AllLevels(after) /\ findPriceLevel(after, Ord(b, order).price) = NULL
       ELSE /\ Lvl(after, l).total_qty = Lvl(b, l).total_qty - Ord(b, order).qty
            /\ Lvl(after, l).order_count = Lvl(b, l).order_count - 1

C6_DeleteRemoves ==
  [][(lastOp'.op = "deleteOrder" /\ lastOp'.live)
       => DeleteRemoved(Book, Book', lookupOrder(Book, lastOp'.order_id))]_vars

\* ------------------------------------------------------------------------
\* C7.  addOrder with an id that is live, and modifyOrder or
\* deleteOrder with an id that is not live, change nothing: pools, order
\* index, price index, level lists, BBO and trade window are as before.
\* ------------------------------------------------------------------------
RejectedCall(call) ==
  \/ call.op = "addOrder" /\ call.live
  \/ call.op \in {"modifyOrder", "deleteOrder"} /\ ~call.live

C7_RejectedCallsAreNoOps ==
  [][RejectedCall(lastOp') => UNCHANGED bookVars]_vars

\* a rejected call has been made on a book that holds orders on both sides
C7_Witness ==
  /\ RejectedCall(lastOp)
  /\ bids_ # NULL /\ asks_ # NULL

\* ------------------------------------------------------------------------
\* C8.  Every processTrade call records the trade: the window
\* volume grows by qty and the window amount by price * qty, also when the
\* id matches no live order, and then orders, levels and BBO are unchanged.
\* ------------------------------------------------------------------------
BookPart(b) == <<b.order_pool_, b.level_pool_, b.order_map_, b.price_level_map_,
                 b.bids_, b.asks_, b.bbo_>>

TradeRecorded(w, after, price, qty) ==
  /\ after.sum_qty_ = U64(w.sum_qty_ + qty)
  /\ after.sum_amount_ = U64(w.sum_amount_ + price * qty)

C8_TradeAlwaysRecorded ==
  [][\A p \in Prices, q \in Qtys, s \in Sides, t \in TradeTimes :
       (lastOp'.op = "processTrade"
          /\ Book' = processTrade(Book, lastOp'.order_id, p, q, s, t))
       => /\ TradeRecorded(window_stats_, window_stats_', p, q)
          /\ ~lastOp'.live => BookPart(Book') = BookPart(Book)]_vars

\* ------------------------------------------------------------------------
\* C9.  A partial fill (order qty greater than the trade qty)
\* lowers the order's qty and the total_qty of the level holding the order
\* by the trade qty, changes no other level, keeps every FIFO as it was and
\* leaves each side's BBO qty equal to its best level's total_qty.
\* ------------------------------------------------------------------------
BBOQtyMatches(b) ==
  /\ b.bids_ # NULL => b.bbo_.bid_qty = Lvl(b, b.bids_).total_qty
  /\ b.asks_ # NULL => b.bbo_.ask_qty = Lvl(b, b.asks_).total_qty

PartialFillApplied(b, after, order, qty) ==
  /\ Ord(after, order).qty = Ord(b, order).qty - qty
  /\ AllLevels(after) = AllLevels(b)
  /\ \A l \in AllLevels(b) :
       /\ Fifo(after, l) = Fifo(b, l)
       /\ Lvl(after, l).total_qty =
            IF l \in LevelsHolding(b, order) THEN Lvl(b, l).total_qty - qty
            ELSE Lvl(b, l).total_qty
  /\ BBOQtyMatches(b) => BBOQtyMatches(after)

C9_PartialFill ==
  [][\A p \in Prices, q \in Qtys, s \in Sides, t \in TradeTimes :
       (/\ lastOp'.op = "processTrade" /\ lastOp'.live
        /\ Ord(Book, lookupOrder(Book, lastOp'.order_id)).qty > q
        /\ Book' = processTrade(Book, lastOp'.order_id, p, q, s, t))
       => PartialFillApplied(Book, Book', lookupOrder(Book, lastOp'.order_id), q)]_vars

\* ------------------------------------------------------------------------
\* C10.  For an id that is not live and pools with room, addOrder
\* followed by deleteOrder of that id restores the book: the same levels
\* with the same FIFO contents and quantities on both sides, the same BBO
\* and the same answer of the price index for every price.
\* ------------------------------------------------------------------------
OrderView(b, order) == <<Ord(b, order).order_id, Ord(b, order).price,
                         Ord(b, order).qty, Ord(b, order).side>>

LevelView(b, level) ==
  IF level = NULL THEN <<>>
  ELSE <<Lvl(b, level).price, Lvl(b, level).side, Lvl(b, level).total_qty,
         Lvl(b, level).order_count,
         [i \in DOMAIN Fifo(b, level) |-> OrderView(b, Fifo(b, level)[i])]>>

View(b) ==
  [levels |-> [s \in Sides |->
                 [i \in DOMAIN LevelList(b, s) |-> LevelView(b, LevelList(b, s)[i])]],
   bbo    |-> b.bbo_,
   found  |-> [p \in Prices |-> LevelView(b, findPriceLevel(b, p))]]

C10_AddThenDeleteRestores ==
  \A id \in OrderIds, p \in Prices, q \in Qtys, s \in Sides :
    (~IsLive(Book, id) /\ PoolsHaveRoom(Book))
      => View(deleteOrder(addOrder(Book, id, p, q, s), id, s)) = View(Book)


\* ------------------------------------------------------------------------
\* C11.  modifyOrder of a live order to the price it already has changes
\* only the order's qty and the total_qty of the level holding it (by the
\* signed difference), keeps every FIFO as it was, and a following
\* modifyOrder back to the old qty restores the exact previous state.
\* ------------------------------------------------------------------------
QtyModified(b, after, order, qty) ==
  /\ Ord(after, order).qty = qty
  /\ AllLevels(after) = AllLevels(b)
  /\ \A l \in AllLevels(b) :
       /\ Fifo(after, l) = Fifo(b, l)
       /\ Lvl(after, l).total_qty =
            IF l \in LevelsHolding(b, order)
            THEN Lvl(b, l).total_qty + qty - Ord(b, order).qty
            ELSE Lvl(b, l).total_qty

C11_SamePriceModify ==
  [][\A q \in Qtys, s \in Sides :
       (/\ lastOp'.op = "modifyOrder" /\ lastOp'.live
        /\ Book' = modifyOrder(Book, lastOp'.order_id,
                               Ord(Book, lookupOrder(Book, lastOp'.order_id)).price, q, s))
       => /\ QtyModified(Book, Book', lookupOrder(Book, lastOp'.order_id), q)
          /\ modifyOrder(Book', lastOp'.order_id,
                         Ord(Book, lookupOrder(Book, lastOp'.order_id)).price,
                         Ord(Book, lookupOrder(Book, lastOp'.order_id)).qty, s) = Book]_vars

\* ------------------------------------------------------------------------
\* C12.  modifyOrder of a live order to another price gives the state of
\* deleteOrder followed by addOrder, and the order ends with the new price
\* and qty at the tail of the FIFO of a level with the new price.
\* ------------------------------------------------------------------------
AtTailOfLevel(b, order, price) ==
  \E l \in AllLevels(b) :
    /\ Lvl(b, l).price = price
    /\ Fifo(b, l)[Len(Fifo(b, l))] = order

Repriced(b, order_id, price, qty) ==
  /\ lookupOrder(b, order_id) # NULL
  /\ Ord(b, lookupOrder(b, order_id)).price = price
  /\ Ord(b, lookupOrder(b, order_id)).qty = qty
  /\ AtTailOfLevel(b, lookupOrder(b, order_id), price)

C12_ModifyIsDeleteThenAdd ==
  [][\A p \in Prices, q \in Qtys, s \in Sides :
       (/\ lastOp'.op = "modifyOrder" /\ lastOp'.live
        /\ Ord(Book, lookupOrder(Book, lastOp'.order_id)).price # p
        /\ Book' = modifyOrder(Book, lastOp'.order_id, p, q, s))
       => /\ Book' = addOrder(deleteOrder(Book, lastOp'.order_id, s),
                              lastOp'.order_id, p, q, s)
          /\ Repriced(Book', lastOp'.order_id, p, q)]_vars

\* ------------------------------------------------------------------------
\* C13.  After clear() the book is as newly constructed: no level on either
\* side, BBO all zeros, no live order, both indexes empty, an empty trade
\* window with volume and amount 0, and every slot of both pools free.
\* ------------------------------------------------------------------------
Cleared(b) ==
  /\ b.bids_ = NULL /\ b.asks_ = NULL
  /\ b.bbo_ = NoBBO
  /\ \A id \in OrderIds : ~IsLive(b, id) /\ lookupOrder(b, id) = NULL
  /\ \A p \in Prices : findPriceLevel(b, p) = NULL
  /\ b.order_map_ = NewBook.order_map_
  /\ b.price_level_map_ = NewBook.price_level_map_
  /\ b.window_stats_ = NewWindow
  /\ b.window_stats_.sum_qty_ = 0 /\ b.window_stats_.sum_amount_ = 0
  /\ Allocated(b.order_pool_) = {} /\ Allocated(b.level_pool_) = {}
  /\ b.order_pool_.storage_ = NewBook.order_pool_.storage_
  /\ b.level_pool_.storage_ = NewBook.level_pool_.storage_

C13_ClearResets == lastOp.op = "clear" => Cleared(Book)

\* clear() has run on a book that held orders: the free stack of the order
\* pool is complete again but no longer in its construction order
C13_Witness ==
  /\ lastOp.op = "clear"
  /\ Len(order_pool_.free_) = MAX_ORDERS
  /\ order_pool_.free_ # NewBook.order_pool_.free_


\* ------------------------------------------------------------------------
\* C14.  Within a level the FIFO keeps insertion order: an order that is
\* added, or moved to a new price, is the last of its level's FIFO, and no
\* call other than clear changes the relative order of the other orders of
\* a level.
\* ------------------------------------------------------------------------
RECURSIVE IsSubSeq(_, _)
IsSubSeq(a, b) ==
  IF a = <<>> THEN TRUE
  ELSE IF b = <<>> THEN FALSE
  ELSE IF Head(a) = Head(b) THEN IsSubSeq(Tail(a), Tail(b))
  ELSE IsSubSeq(a, Tail(b))

RECURSIVE Without(_, _)
Without(sq, x) ==
  IF sq = <<>> THEN <<>>
  ELSE IF Head(sq) = x THEN Without(Tail(sq), x)
  ELSE <<Head(sq)>> \o Without(Tail(sq), x)

FifoBefore(b, level) == IF level \in AllLevels(b) THEN Fifo(b, level) ELSE <<>>

\* the order the call has placed: a newly live order, or a live order whose
\* price the call has changed (NULL when the call placed none)
Placed(b, after, call) ==
  LET new == lookupOrder(after, call.order_id) IN
  IF new = NULL THEN NULL
  ELSE IF call.op = "addOrder" /\ ~call.live THEN new
  ELSE IF call.op = "modifyOrder" /\ call.live
          /\ Ord(b, lookupOrder(b, call.order_id)).price # Ord(after, new).price THEN new
  ELSE NULL

InsertionOrderKept(b, after, placed) ==
  \A l \in AllLevels(after) :
    /\ IsSubSeq(Without(Fifo(after, l), placed), Without(FifoBefore(b, l), placed))
    /\ placed \in SeqToSet(Fifo(after, l))
         => Fifo(after, l)[Len(Fifo(after, l))] = placed

RECURSIVE CountLevels(_, _, _, _)
CountLevels(b, head, current, fuel) ==
  IF current = NULL \/ fuel = 0 THEN 0
  ELSE IF Lvl(b, current).next = head THEN 1
  ELSE 1 + CountLevels(b, head, Lvl(b, current).next, fuel - 1)

getBidLevels(b) == CountLevels(b, b.bids_, b.bids_, MAX_PRICE_LEVELS)
getAskLevels(b) == CountLevels(b, b.asks_, b.asks_, MAX_PRICE_LEVELS)

\* for (i = 0; i < level && current; i++) { current = next; if (current == head) return 0; }
\* the level reached, NULL for "return 0"
RECURSIVE LevelAt(_, _, _, _, _)
LevelAt(b, head, current, i, level) ==
  IF i < level /\ current # NULL
  THEN IF Lvl(b, current).next = head THEN NULL
       ELSE LevelAt(b, head, Lvl(b, current).next, i + 1, level)
  ELSE current

getBidPrice(b, level) ==
  LET current == LevelAt(b, b.bids_, b.bids_, 0, level) IN
  IF current # NULL THEN Lvl(b, current).price ELSE 0

getBidQty(b, level) ==
  LET current == LevelAt(b, b.bids_, b.bids_, 0, level) IN
  IF current # NULL THEN Lvl(b, current).total_qty ELSE 0

getAskPrice(b, level) ==
  LET current == LevelAt(b, b.asks_, b.asks_, 0, level) IN
  IF current # NULL THEN Lvl(b, current).price ELSE 0

getAskQty(b, level) ==
  LET current == LevelAt(b, b.asks_, b.asks_, 0, level) IN
  IF current # NULL THEN Lvl(b, current).total_qty ELSE 0

\* ------------------------------------------------------------------------
\* C15.  getBidPrice(k) / getBidQty(k) are the price and total qty of the
\* (k+1)-th highest price with live BUY orders, getAskPrice(k) / getAskQty(k)
\* those of the (k+1)-th lowest price with live SELL orders, 0 for k at or
\* beyond the number of levels, and getBidLevels() / getAskLevels() are the
\* numbers of distinct prices with live orders of the side.
\* ------------------------------------------------------------------------
LiveOrders(b, side) == {h \in Allocated(b.order_pool_) : Ord(b, h).side = side}

LivePrices(b, side) == {Ord(b, h).price : h \in LiveOrders(b, side)}

RECURSIVE SetSum(_, _)
SetSum(b, orders) ==
  IF orders = {} THEN 0
  ELSE LET h == CHOOSE x \in orders : TRUE
       IN Ord(b, h).qty + SetSum(b, orders \ {h})

\* the price that has exactly k better prices among the side's live prices
RankedPrice(b, side, k) ==
  CHOOSE p \in LivePrices(b, side) :
    Cardinality({x \in LivePrices(b, side) : Better(side, x, p)}) = k

LevelQueryAnswers(b, side, k, levels, price, qty) ==
  /\ levels = Cardinality(LivePrices(b, side))
  /\ IF k < levels
     THEN /\ price = RankedPrice(b, side, k)
          /\ qty = SetSum(b, {h \in LiveOrders(b, side) : Ord(b, h).price = price})
     ELSE price = 0 /\ qty = 0

C15_LevelQueries ==
  \A k \in 0..(MAX_PRICE_LEVELS + 1) :
    /\ LevelQueryAnswers(Book, "BUY", k, getBidLevels(Book),
                         getBidPrice(Book, k), getBidQty(Book, k))
    /\ LevelQueryAnswers(Book, "SELL", k, getAskLevels(Book),
                         getAskPrice(Book, k), getAskQty(Book, k))


\* ------------------------------------------------------------------------
\* The trade window driven through the book's interface
\* ------------------------------------------------------------------------
\* an eviction that also resets the cached best bid and offer
evictExpiredTradesResetsBBO(b, current_timestamp) ==
  [b EXCEPT !.window_stats_ = evictExpired(@, current_timestamp), !.bbo_ = NoBBO]

\* void OrderBook::evictExpiredTrades(uint64_t current_timestamp)
evictExpiredTrades(b, current_timestamp) ==
  [b EXCEPT !.window_stats_ = evictExpired(@, current_timestamp)]

MaxWindowAdds == 1       \* resting orders added in one behaviour of WindowSpec
RestingQty == 7          \* their qty: trades of qty 1 that one of them absorbs

\* trades in second 0 and in second 1
WindowTradeTimes == {1, NS_PER_SEC + 1}

\* 00:00:01 and 00:00:02 of 1970-01-01, and 23:59:59 of 1969-12-31, for which
\* mktime returns -1
BadGridTime == GridTime(1969, 12, 31, 23, 59, 59)
GridTimes == {GridTime(1970, 1, 1, 0, 0, s) : s \in 1..2} \cup {BadGridTime}

\* the timestamp of the trade recorded last (0 before the first)
LastTradeTime(w) == w.timestamps_[(w.head_ + MAX_TRADES - 1) % MAX_TRADES]

WindowAddOrder ==
  /\ nops < MaxWindowAdds
  /\ nops' = nops + 1
  /\ Install(addOrder(Book, 1, 1, RestingQty, "BUY"))
  /\ lastOp' = Call("addOrder", 1, IsLive(Book, 1))

WindowProcessTrade ==
  \E p \in 1..MaxPrice, t \in WindowTradeTimes :
    \* trades arrive in time order
    /\ nanosecondsToUnixSeconds(t) >= LastTradeTime(window_stats_)
    /\ Install(processTrade(Book, 1, p, 1, "BUY", t))
    /\ lastOp' = Call("processTrade", 1, IsLive(Book, 1))
    /\ UNCHANGED nops

WindowEvictExpiredTrades ==
  \E g \in GridTimes :
    /\ Install(evictExpiredTrades(Book, g))
    /\ lastOp' = Call("evictExpiredTrades", 0, FALSE)
    /\ UNCHANGED nops

WindowNext == WindowAddOrder \/ WindowProcessTrade \/ WindowEvictExpiredTrades

WindowSpec == Init /\ [][WindowNext]_vars


\* ------------------------------------------------------------------------
\* Observations of the trade window
\* ------------------------------------------------------------------------
\* the ring slots of the retained trades, oldest first
Retained(w) == [k \in 1..w.count_ |-> (TailIdx(w) + k - 1) % MAX_TRADES]

RetainedSlots(w) == SeqToSet(Retained(w))

RECURSIVE SlotSum(_, _)
SlotSum(f, slots) ==
  IF slots = {} THEN 0
  ELSE LET i == CHOOSE x \in slots : TRUE IN f[i] + SlotSum(f, slots \ {i})

RetainedPrices(w) == {w.prices_[i] : i \in RetainedSlots(w)}

MaxOf(S) == CHOOSE x \in S : \A y \in S : y <= x
MinOf(S) == CHOOSE x \in S : \A y \in S : y >= x

RetainedRange(w) ==
  IF w.count_ = 0 THEN 0 ELSE MaxOf(RetainedPrices(w)) - MinOf(RetainedPrices(w))

\* ------------------------------------------------------------------------
\* C16.  After any sequence of processTrade and evictExpiredTrades calls the
\* window volume is the sum of qty, and the window amount the sum of
\* price * qty, over exactly the retained trades.
\* ------------------------------------------------------------------------
SumsMatchRetained(w) ==
  /\ getTotalVolume(w) = U64(SlotSum(w.quantities_, RetainedSlots(w)))
  /\ getTotalAmount(w) =
       U64(SlotSum([i \in TradeSlots |-> w.prices_[i] * w.quantities_[i]], RetainedSlots(w)))

C16_WindowSumsMatchRetained == SumsMatchRetained(window_stats_)

\* ------------------------------------------------------------------------
\* C17.  A trade recorded while the window holds MAX_TRADES trades overwrites
\* the oldest one: that trade's qty and amount leave the running sums before
\* the new trade is added, the count stays MAX_TRADES, and the price range
\* is that of the trades retained afterwards.
\* ------------------------------------------------------------------------
OverwroteOldest(w, after, price, qty) ==
  /\ after.sum_qty_ = U64(w.sum_qty_ - w.quantities_[w.head_] + qty)
  /\ after.sum_amount_ = U64(w.sum_amount_ - w.amounts_[w.head_] + price * qty)
  /\ after.count_ = MAX_TRADES
  /\ w.head_ \in RetainedSlots(after) /\ after.prices_[w.head_] = price
  /\ getPriceRange(after) = RetainedRange(after)

C17_OverwriteSubtractsOldest ==
  \A p \in 1..MaxPrice, q \in Qtys, t \in WindowTradeTimes :
    window_stats_.count_ = MAX_TRADES
      => OverwroteOldest(window_stats_, recordTrade(window_stats_, t, p, q), p, q)

\* ------------------------------------------------------------------------
\* C18.  After evictExpiredTrades with a grid time that converts, every
\* retained trade has its second in [current - WINDOW_SECONDS, current).
\* ------------------------------------------------------------------------
RetainedInWindow(w, current_seconds) ==
  \A i \in RetainedSlots(w) :
    /\ w.timestamps_[i] >= current_seconds - WINDOW_SECONDS
    /\ w.timestamps_[i] < current_seconds

C18_EvictionKeepsWindowOnly ==
  \A g \in GridTimes :
    mktime(g) # -1
      => RetainedInWindow(evictExpired(window_stats_, g), yyyymmddhhmmssToUnixSeconds(g))

\* ------------------------------------------------------------------------
\* C19.  evictExpiredTrades with a grid time whose calendar conversion fails
\* leaves the window as it was: retained trades, volume, amount, price range.
\* ------------------------------------------------------------------------
WindowView(w) ==
  [trades |-> [k \in DOMAIN Retained(w) |->
                 <<w.timestamps_[Retained(w)[k]], w.prices_[Retained(w)[k]],
                   w.quantities_[Retained(w)[k]]>>],
   volume |-> getTotalVolume(w),
   amount |-> getTotalAmount(w),
   range  |-> getPriceRange(w)]

C19_FailedConversionIsNoOp ==
  \A g \in GridTimes :
    mktime(g) = -1 => WindowView(evictExpired(window_stats_, g)) = WindowView(window_stats_)

\* ------------------------------------------------------------------------
\* C20.  After any interleaving of processTrade and evictExpiredTrades calls
\* getPriceRange() is the maximum minus the minimum price of the retained
\* trades, and 0 when none is retained.
\* ------------------------------------------------------------------------
C20_PriceRangeMatchesRetained == getPriceRange(window_stats_) = RetainedRange(window_stats_)


\* ------------------------------------------------------------------------
\* Median of the trade window
\* ------------------------------------------------------------------------
\* for (i < num_prices) price_cache_[i] = prices_[(head_ + MAX_TRADES - count_ + i) % MAX_TRADES]
PriceCache(w) ==
  [i \in 1..w.count_ |-> w.prices_[(w.head_ + (MAX_TRADES - w.count_ + (i - 1))) % MAX_TRADES]]

\* std::nth_element over the whole range leaves every position holding the
\* value it has in the sorted range whenever it is asked for position n.
RECURSIVE InsertSorted(_, _)
InsertSorted(s, x) ==
  IF s = <<>> THEN <<x>>
  ELSE IF x <= Head(s) THEN <<x>> \o s
  ELSE <<Head(s)>> \o InsertSorted(Tail(s), x)

RECURSIVE SortedRange(_)
SortedRange(s) == IF s = <<>> THEN <<>> ELSE InsertSorted(SortedRange(Tail(s)), Head(s))

\* the value std::nth_element puts at 0-based position n of range [first, last)
nth_element(cache, first, n, last) ==
  SortedRange(SubSeq(cache, first + 1, last))[n - first + 1]

\* upper middle only: the even case without the average
getMedianPriceUpperMiddle(w) ==
  IF w.count_ = 0 THEN 0
  ELSE nth_element(PriceCache(w), 0, w.count_ \div 2, w.count_)

getMedianPrice(w) ==
  IF w.count_ = 0 THEN 0
  ELSE
    LET num_prices == IF w.count_ < MAX_TRADES THEN w.count_ ELSE MAX_TRADES
        cache == PriceCache(w)
        mid == num_prices \div 2
        mid1 == nth_element(cache, 0, mid, num_prices)
        \* the first call left the mid smallest values in [0, mid)
        lower == SubSeq(SortedRange(cache), 1, mid)
        mid0 == nth_element(lower, 0, mid - 1, mid)
    IN IF num_prices % 2 = 0 THEN (mid0 + mid1) \div 2 ELSE mid1

\* ------------------------------------------------------------------------
\* C21.  After any sequence of recorded and evicted trades getMedianPrice()
\* is the median of the retained prices: the middle one when their count is
\* odd, the two middle ones added and halved (integer division) when it is
\* even, 0 when no trade is retained.
\* ------------------------------------------------------------------------
\* x is the k-th smallest (0-based) of the retained prices, counted with repeats
IsRanked(w, x, k) ==
  /\ Cardinality({i \in RetainedSlots(w) : w.prices_[i] < x}) <= k
  /\ Cardinality({i \in RetainedSlots(w) : w.prices_[i] <= x}) > k

RankedRetained(w, k) == CHOOSE x \in RetainedPrices(w) : IsRanked(w, x, k)

RetainedMedian(w) ==
  IF w.count_ = 0 THEN 0
  ELSE IF w.count_ % 2 = 1 THEN RankedRetained(w, w.count_ \div 2)
  ELSE (RankedRetained(w, w.count_ \div 2 - 1) + RankedRetained(w, w.count_ \div 2)) \div 2

C21_MedianOfRetained == getMedianPrice(window_stats_) = RetainedMedian(window_stats_)

\* an even number of trades is left after an eviction that removed some, and
\* the two middle prices add up to an odd number
C21_Witness ==
  /\ lastOp.op = "evictExpiredTrades"
  /\ window_stats_.head_ > window_stats_.count_
  /\ window_stats_.count_ \in {2, 4}
  /\ (RankedRetained(window_stats_, window_stats_.count_ \div 2 - 1)
       + RankedRetained(window_stats_, window_stats_.count_ \div 2)) % 2 = 1


\* ------------------------------------------------------------------------
\* VWAP and the level it falls on
\* ------------------------------------------------------------------------
\* if (count_ == 0 || sum_qty_ == 0) return 0; return sum_amount_ / sum_qty_;
getVWAP(w) ==
  IF w.count_ = 0 \/ w.sum_qty_ = 0 THEN 0 ELSE w.sum_amount_ \div w.sum_qty_

\* for (i = 0; i < ask_levels; i++) if (vwap_price <= getAskPrice(i)) return -i;  return 0;
RECURSIVE ScanAsks(_, _, _, _)
ScanAsks(ob, vwap_price, i, ask_levels) ==
  IF i >= ask_levels THEN 0
  ELSE IF vwap_price <= getAskPrice(ob, i) THEN -i
  ELSE ScanAsks(ob, vwap_price, i + 1, ask_levels)

\* for (i = 0; i < bid_levels; i++) if (vwap_price >= getBidPrice(i)) return i;  (falls through to return 0)
RECURSIVE ScanBids(_, _, _, _)
ScanBids(ob, vwap_price, i, bid_levels) ==
  IF i >= bid_levels THEN 0
  ELSE IF vwap_price >= getBidPrice(ob, i) THEN i
  ELSE ScanBids(ob, vwap_price, i + 1, bid_levels)

getVWAPLevel(w, ob) ==
  LET vwap_price == getVWAP(w) IN
  IF vwap_price = 0 THEN 0
  ELSE IF getAskLevels(ob) > 0 /\ vwap_price >= getAskPrice(ob, 0)
       THEN ScanAsks(ob, vwap_price, 0, getAskLevels(ob))
  ELSE IF getBidLevels(ob) > 0 /\ vwap_price <= getBidPrice(ob, 0)
       THEN ScanBids(ob, vwap_price, 0, getBidLevels(ob))
  ELSE 0

\* A book with two resting orders, trades against the first, and evictions.
VwapRestingQty == 9
VwapMaxAdds == 2
VwapTradePrices == {2}

VwapAddOrder ==
  /\ nops < VwapMaxAdds
  /\ nops' = nops + 1
  /\ \/ /\ ~IsLive(Book, 1)
        /\ Install(addOrder(Book, 1, 2, VwapRestingQty, "BUY"))
        /\ lastOp' = Call("addOrder", 1, FALSE)
     \/ \E side \in Sides :
          /\ ~IsLive(Book, 2)
          /\ Install(addOrder(Book, 2, 3, 1, side))
          /\ lastOp' = Call("addOrder", 2, FALSE)

VwapProcessTrade ==
  \E p \in VwapTradePrices :
    /\ IsLive(Book, 1)
    /\ Install(processTrade(Book, 1, p, 1, "BUY", NS_PER_SEC + 1))
    /\ lastOp' = Call("processTrade", 1, TRUE)
    /\ UNCHANGED nops

VwapEvictExpiredTrades ==
  \E g \in GridTimes :
    /\ Install(evictExpiredTrades(Book, g))
    /\ lastOp' = Call("evictExpiredTrades", 0, FALSE)
    /\ UNCHANGED nops

VwapNext == VwapAddOrder \/ VwapProcessTrade \/ VwapEvictExpiredTrades

VwapSpec == Init /\ [][VwapNext]_vars

\* ------------------------------------------------------------------------
\* C22.  With VWAP = window amount / window volume (0 when the volume is 0),
\* getVWAPLevel() is -i for the first ask level i with VWAP <= ask_price(i)
\* when VWAP >= best ask; otherwise +i for the first bid level i with
\* VWAP >= bid_price(i) when VWAP <= best bid; and 0 when VWAP is 0, inside
\* the spread, above the worst ask, or equal to the best bid or best ask.
\* ------------------------------------------------------------------------
FirstLevel(S) == CHOOSE i \in S : \A j \in S : i <= j

VWAPLevelAnswer(b, answer) ==
  LET volume == getTotalVolume(b.window_stats_)
      amount == getTotalAmount(b.window_stats_)
      VWAP == IF volume = 0 THEN 0 ELSE amount \div volume
      askHits == {i \in 0..(getAskLevels(b) - 1) : VWAP <= getAskPrice(b, i)}
      bidHits == {i \in 0..(getBidLevels(b) - 1) : VWAP >= getBidPrice(b, i)}
      onAsks == getAskLevels(b) > 0 /\ VWAP >= getAskPrice(b, 0)
      onBids == getBidLevels(b) > 0 /\ VWAP <= getBidPrice(b, 0)
  IN IF VWAP = 0 THEN answer = 0
     ELSE IF onAsks THEN answer = (IF askHits = {} THEN 0 ELSE -FirstLevel(askHits))
     ELSE IF onBids THEN (bidHits # {} => answer = FirstLevel(bidHits))
     ELSE answer = 0

C22_VWAPLevel == VWAPLevelAnswer(Book, getVWAPLevel(window_stats_, Book))


\* ------------------------------------------------------------------------
\* Book metrics
\* ------------------------------------------------------------------------
\* a double result that is a quotient of integers, kept exact
Ratio(num, den) == [num |-> num, den |-> den]
SameRatio(x, y) == x.num * y.den = y.num * x.den

\* if (bid_price > 0 && ask_price > 0) return (double(bid_price) + ask_price) / 2.0; return 0.0;
getMidPrice(b) ==
  IF b.bbo_.bid_price > 0 /\ b.bbo_.ask_price > 0
  THEN Ratio(b.bbo_.bid_price + b.bbo_.ask_price, 2)
  ELSE Ratio(0, 1)

\* if (bid_price > 0 && ask_price > 0) return ask_price - bid_price; return 0;
getSpread(b) ==
  IF b.bbo_.bid_price > 0 /\ b.bbo_.ask_price > 0
  THEN b.bbo_.ask_price - b.bbo_.bid_price
  ELSE 0

\* ------------------------------------------------------------------------
\* C23.  getSpread() is the best ask price minus the best bid price and
\* getMidPrice() half of their sum whenever both sides hold at least one
\* level; both are 0 whenever at least one side holds none.
\* ------------------------------------------------------------------------
SpreadAndMid(b, spread, mid) ==
  IF LevelsOf(b, "BUY") # {} /\ LevelsOf(b, "SELL") # {}
  THEN /\ spread = BestPrice(b, "SELL") - BestPrice(b, "BUY")
       /\ SameRatio(mid, Ratio(BestPrice(b, "SELL") + BestPrice(b, "BUY"), 2))
  ELSE spread = 0 /\ SameRatio(mid, Ratio(0, 1))

C23_SpreadAndMid == SpreadAndMid(Book, getSpread(Book), getMidPrice(Book))


\* the walk below without its bound k
RECURSIVE SumLevelQtyUnbounded(_, _, _, _, _)
SumLevelQtyUnbounded(b, head, level, i, k) ==
  IF i < MAX_PRICE_LEVELS /\ level # NULL
  THEN Lvl(b, level).total_qty
         + (IF Lvl(b, level).next = head THEN 0
            ELSE SumLevelQtyUnbounded(b, head, Lvl(b, level).next, i + 1, k))
  ELSE 0

\* for (i = 0; i < k && level; i++) { total += level->total_qty; level = level->next; if (level == head) break; }
RECURSIVE SumLevelQty(_, _, _, _, _)
SumLevelQty(b, head, level, i, k) ==
  IF i < k /\ level # NULL
  THEN Lvl(b, level).total_qty
         + (IF Lvl(b, level).next = head THEN 0
            ELSE SumLevelQty(b, head, Lvl(b, level).next, i + 1, k))
  ELSE 0

getImbalance(b, k) ==
  LET total_bid_qty == U64(SumLevelQty(b, b.bids_, b.bids_, 0, k))
      total_ask_qty == U64(SumLevelQty(b, b.asks_, b.asks_, 0, k))
  IN IF U64(total_bid_qty + total_ask_qty) = 0 THEN Ratio(0, 1)
     ELSE Ratio(total_bid_qty - total_ask_qty, U64(total_bid_qty + total_ask_qty))

\* ------------------------------------------------------------------------
\* C24.  getImbalance(k) is (B - A)/(B + A), B and A being the sums of
\* total_qty over the min(k, number of levels) best bid and best ask levels,
\* and 0 when B + A = 0: levels beyond the k-th do not contribute, a k above
\* the level count reads no further than the last level, and a one-sided
\* book with positive quantity gives +1 (bids only) or -1 (asks only).
\* ------------------------------------------------------------------------
Depths == 0..(MAX_PRICE_LEVELS + 1)

RECURSIVE LevelQtySum(_, _)
LevelQtySum(b, levels) ==
  IF levels = {} THEN 0
  ELSE LET l == CHOOSE x \in levels : TRUE
       IN Lvl(b, l).total_qty + LevelQtySum(b, levels \ {l})

Smaller(a, b) == IF a < b THEN a ELSE b

\* the sets of min(k, number of levels) levels of a side that no level left
\* out beats on price
BestLevelSets(b, side, k) ==
  {S \in SUBSET LevelsOf(b, side) :
     /\ Cardinality(S) = Smaller(k, Cardinality(LevelsOf(b, side)))
     /\ \A l \in S, m \in LevelsOf(b, side) \ S :
          ~Better(side, Lvl(b, m).price, Lvl(b, l).price)}

ImbalanceAnswer(b, k, answer) ==
  \E SB \in BestLevelSets(b, "BUY", k), SA \in BestLevelSets(b, "SELL", k) :
    LET B == LevelQtySum(b, SB)
        A == LevelQtySum(b, SA)
    IN /\ IF B + A = 0 THEN SameRatio(answer, Ratio(0, 1))
          ELSE SameRatio(answer, Ratio(B - A, B + A))
       /\ (k > 0 /\ B > 0 /\ LevelsOf(b, "SELL") = {}) => SameRatio(answer, Ratio(1, 1))
       /\ (k > 0 /\ A > 0 /\ LevelsOf(b, "BUY") = {}) => SameRatio(answer, Ratio(-1, 1))

C24_Imbalance == \A k \in Depths : ImbalanceAnswer(Book, k, getImbalance(Book, k))

\* two bid levels with quantity: the second one is left out at k = 1 and
\* counted at a k above the level count
C24_Witness ==
  /\ Cardinality(LevelsOf(Book, "BUY")) = 2
  /\ \A l \in LevelsOf(Book, "BUY") : Lvl(Book, l).total_qty > 0
  /\ SumLevelQty(Book, Book.bids_, Book.bids_, 0, 1)
       < SumLevelQty(Book, Book.bids_, Book.bids_, 0, MAX_PRICE_LEVELS + 1)
  /\ SameRatio(getImbalance(Book, 1), Ratio(1, 1))


\* ------------------------------------------------------------------------
\* Queue position of an order
\* ------------------------------------------------------------------------
\* Order* current = order->prev; while (current != order) { ...; current = current->prev; }
\* the orders visited; the walk ends after MAX_ORDERS steps where the source
\* would go on for ever
RECURSIVE PrevWalk(_, _, _, _)
PrevWalk(b, order, current, fuel) ==
  IF current = order \/ current = NULL \/ fuel = 0 THEN <<>>
  ELSE <<current>> \o PrevWalk(b, order, Ord(b, current).prev, fuel - 1)

getOrderRank(b, order_id) ==
  LET order == lookupOrder(b, order_id) IN
  IF order = NULL THEN 0
  ELSE 1 + Len(PrevWalk(b, order, Ord(b, order).prev, MAX_ORDERS))

getQtyAhead(b, order_id) ==
  LET order == lookupOrder(b, order_id) IN
  IF order = NULL THEN 0
  ELSE U32(SumQty(b, PrevWalk(b, order, Ord(b, order).prev, MAX_ORDERS)))

\* ------------------------------------------------------------------------
\* C25.  For a live order id getOrderRank(id) is the order_count of the
\* level holding the order and getQtyAhead(id) the sum of qty of the other
\* orders of that level, which is the level's total_qty minus the order's
\* own qty, wherever the order stands in the FIFO; for an id that is not
\* live both are 0.
\* ------------------------------------------------------------------------
RankAnswers(b, id, rank, ahead) ==
  IF IsLive(b, id)
  THEN \A h \in Allocated(b.order_pool_) :
         Ord(b, h).order_id = id =>
           /\ LevelsHolding(b, h) # {}
           /\ \A l \in LevelsHolding(b, h) :
                /\ rank = Lvl(b, l).order_count
                /\ ahead = SumQty(b, Fifo(b, l)) - Ord(b, h).qty
                /\ ahead = Lvl(b, l).total_qty - Ord(b, h).qty
  ELSE rank = 0 /\ ahead = 0

C25_RankAndQtyAhead ==
  \A id \in OrderIds : RankAnswers(Book, id, getOrderRank(Book, id), getQtyAhead(Book, id))


\* ------------------------------------------------------------------------
\* C26.  An addOrder that cannot complete because the order pool or the
\* level pool is exhausted is a no-op with full rollback: afterwards the id
\* is not live, no order or level slot is allocated for it, and levels,
\* FIFOs, price index and BBO are as before the call.
\* ------------------------------------------------------------------------
\* the call passes the duplicate test and then finds a pool it needs empty
CannotComplete(b, order_id, price) ==
  /\ ~slotTaken(b, order_id)
  /\ \/ PoolExhausted(b.order_pool_)
     \/ findPriceLevel(b, price) = NULL /\ PoolExhausted(b.level_pool_)

RolledBack(b, after, order_id) ==
  /\ ~IsLive(after, order_id)
  /\ lookupOrder(after, order_id) = NULL
  /\ Allocated(after.order_pool_) = Allocated(b.order_pool_)
  /\ Allocated(after.level_pool_) = Allocated(b.level_pool_)
  /\ after.order_pool_.free_ = b.order_pool_.free_
  /\ after.level_pool_.free_ = b.level_pool_.free_
  /\ after.order_map_ = b.order_map_
  /\ after.price_level_map_ = b.price_level_map_
  /\ View(after) = View(b)

C26_ExhaustedAddRollsBack ==
  \A id \in OrderIds, p \in Prices, q \in Qtys, s \in Sides :
    (~IsLive(Book, id) /\ CannotComplete(Book, id, p))
      => RolledBack(Book, addOrder(Book, id, p, q, s), id)

\* an addOrder for a free id has just been turned away with every level slot
\* in use, and the book holds orders
C26_Witness ==
  /\ lastOp.op = "addOrder" /\ ~lastOp.live
  /\ ~IsLive(Book, lastOp.order_id) /\ ~slotTaken(Book, lastOp.order_id)
  /\ PoolExhausted(level_pool_)
  /\ \E p \in Prices : findPriceLevel(Book, p) = NULL
  /\ Cardinality(Allocated(order_pool_)) = MAX_PRICE_LEVELS


\* ------------------------------------------------------------------------
\* A TieredMemoryPool under allocate and deallocate calls
\* ------------------------------------------------------------------------
TieredAllocate ==
  /\ tiered_pool_' = allocate(tiered_pool_).pool
  /\ tiered_objs_' = IF allocate(tiered_pool_).obj = nullptr THEN tiered_objs_
                     ELSE tiered_objs_ \cup {allocate(tiered_pool_).obj}
  /\ UNCHANGED <<bookVars, treeVars, ringVars, implVars, lastOp, nops>>

TieredDeallocate ==
  \E obj \in tiered_objs_ :
    /\ tiered_pool_' = deallocate(tiered_pool_, obj)
    /\ tiered_objs_' = tiered_objs_ \ {obj}
    /\ UNCHANGED <<bookVars, treeVars, ringVars, implVars, lastOp, nops>>

TieredNext == TieredAllocate \/ TieredDeallocate

TieredSpec == Init /\ [][TieredNext]_vars

\* ------------------------------------------------------------------------
\* C27.  TieredMemoryPool::allocate returns nullptr only when every tier is
\* full: after any sequence of allocate and deallocate calls allocate
\* succeeds whenever the number of live objects is below capacity().
\* ------------------------------------------------------------------------
C27_AllocateSucceedsBelowCapacity ==
  Cardinality(tiered_objs_) < capacity(tiered_pool_)
    => allocate(tiered_pool_).obj # nullptr


\* ------------------------------------------------------------------------
\* C28.  After any sequence of allocate and deallocate calls freeCount() is
\* N times activeTierCount() minus the number of live objects, deallocate
\* returns the slot to the tier the object was allocated from, and a cold
\* tier becomes active only when an allocation found every earlier tier
\* full.
\* ------------------------------------------------------------------------
\* the free slots of tier i (0 the hot tier), none for a tier not yet built
TierFree(tp, i) ==
  IF i = 0 THEN SeqToSet(tp.hot_tier_.free_)
  ELSE IF tp.cold_tiers_[i].active THEN SeqToSet(tp.cold_tiers_[i].pool.free_)
  ELSE {}

TierFull(tp, i) ==
  IF i = 0 THEN PoolExhausted(tp.hot_tier_)
  ELSE tp.cold_tiers_[i].active /\ PoolExhausted(tp.cold_tiers_[i].pool)

FreeCountMatches(tp, objs) ==
  freeCount(tp) = N * activeTierCount(tp) - Cardinality(objs)

ReturnedToOwnTier(tp, after, obj) ==
  \A i \in 0..Len(tp.cold_tiers_) :
    TierFree(after, i) = IF i = obj.tier THEN TierFree(tp, i) \cup {obj.slot}
                         ELSE TierFree(tp, i)

ActivatedOnlyWhenEarlierFull(tp, after) ==
  \A i \in DOMAIN tp.cold_tiers_ :
    (~tp.cold_tiers_[i].active /\ after.cold_tiers_[i].active)
      => \A j \in 0..(i - 1) : TierFull(tp, j)

C28_TierAccounting ==
  /\ FreeCountMatches(tiered_pool_, tiered_objs_)
  /\ \A obj \in tiered_objs_ :
       /\ obj.slot \notin TierFree(tiered_pool_, obj.tier)
       /\ ReturnedToOwnTier(tiered_pool_, deallocate(tiered_pool_, obj), obj)
  /\ ActivatedOnlyWhenEarlierFull(tiered_pool_, allocate(tiered_pool_).pool)


\* ------------------------------------------------------------------------
\* A PriceLevelTree under insert, erase, rebuild and setAutoRebuild calls.
\* A tree whose memory was overwritten (wild_) makes no further call.
\* ------------------------------------------------------------------------
TreeStep == nops < MaxTreeOps /\ nops' = nops + 1 /\ ~tree_.wild_

TreeInsert ==
  \E price \in TreePrices, stale \in StaleHeaders :
    /\ TreeStep
    /\ tree_' = insert(tree_, price, LevelOf(price), stale).tree
    /\ tree_entries_' = IF tree_entries_[price] = NULL
                        THEN [tree_entries_ EXCEPT ![price] = LevelOf(price)]
                        ELSE tree_entries_
    /\ UNCHANGED <<bookVars, tieredVars, ringVars, implVars, lastOp>>

TreeErase ==
  \E price \in TreePrices :
    /\ TreeStep
    /\ tree_' = erase(tree_, price).tree
    /\ tree_entries_' = [tree_entries_ EXCEPT ![price] = NULL]
    /\ UNCHANGED <<bookVars, tieredVars, ringVars, implVars, lastOp>>

TreeRebuild ==
  /\ TreeStep
  /\ tree_' = rebuild(tree_)
  /\ UNCHANGED <<tree_entries_, bookVars, tieredVars, ringVars, implVars, lastOp>>

TreeSetAutoRebuild ==
  \E enabled \in BOOLEAN :
    /\ TreeStep
    /\ tree_' = setAutoRebuild(tree_, enabled)
    /\ UNCHANGED <<tree_entries_, bookVars, tieredVars, ringVars, implVars, lastOp>>

TreeNext == TreeInsert \/ TreeErase \/ TreeRebuild \/ TreeSetAutoRebuild

TreeSpec == Init /\ [][TreeNext]_vars

Stored == {p \in TreePrices : tree_entries_[p] # NULL}


\* the stored prices in ascending order
StoredAscending ==
  [i \in 1..Cardinality(Stored) |->
     CHOOSE p \in Stored : Cardinality({q \in Stored : q < p}) = i - 1]

Fewer(a, b) == IF a < b THEN a ELSE b

PricesOf(visited) == [i \in 1..Len(visited) |-> visited[i][1]]

\* ------------------------------------------------------------------------
\* C29.  After any sequence of insert and erase calls the tree behaves as a
\* map from price to level id: find(p) succeeds exactly for the prices
\* inserted and not since erased and yields the level id given at insertion;
\* insert of a present price returns false and changes nothing; erase of an
\* absent price returns false and changes nothing; size() is the number of
\* stored prices.
\* ------------------------------------------------------------------------
C29_TreeBehavesAsMap ==
  /\ ~tree_.wild_
  /\ \A p \in TreePrices :
       /\ find(tree_, p).found <=> p \in Stored
       /\ p \in Stored => find(tree_, p).level = tree_entries_[p]
  /\ \A p \in Stored :
       \A level \in {LevelOf(p), NULL}, stale \in StaleHeaders :
         insert(tree_, p, level, stale) = [tree |-> tree_, ok |-> FALSE]
  /\ \A p \in TreePrices \ Stored :
       erase(tree_, p) = [tree |-> tree_, ok |-> FALSE]
  /\ treeSize(tree_) = Cardinality(Stored)

\* ------------------------------------------------------------------------
\* C30.  After any sequence of insert and erase calls min() and max() return
\* the smallest and largest stored price, nthFromMin(k) and nthFromMax(k)
\* return the k-th stored price (0-based) in ascending and descending order
\* and fail when k >= size(), and forEachFromMin(k) and forEachFromMax(k)
\* visit exactly the first min(k, size()) stored prices in ascending and
\* descending order.
\* ------------------------------------------------------------------------
C30_OrderedQueries ==
  LET ascending == StoredAscending
      descending == Reverse(ascending)
      stored == Len(ascending)
  IN
  /\ treeMin(tree_).ok <=> stored > 0
  /\ treeMax(tree_).ok <=> stored > 0
  /\ stored > 0 =>
       /\ treeMin(tree_).price = ascending[1]
       /\ treeMax(tree_).price = descending[1]
  /\ \A k \in 0..(Cardinality(TreePrices) + 1) :
       /\ nthFromMin(tree_, k).ok <=> k < treeSize(tree_)
       /\ nthFromMax(tree_, k).ok <=> k < treeSize(tree_)
       /\ k < stored =>
            /\ nthFromMin(tree_, k).price = ascending[k + 1]
            /\ nthFromMax(tree_, k).price = descending[k + 1]
       /\ PricesOf(forEachFromMin(tree_, k))
            = SubSeq(ascending, 1, Fewer(k, treeSize(tree_)))
       /\ PricesOf(forEachFromMax(tree_, k))
            = SubSeq(descending, 1, Fewer(k, treeSize(tree_)))



\* ------------------------------------------------------------------------
\* Longer behaviours on one side of the book: adds and deletes of three
\* order ids at two prices that share a price-index slot
\* ------------------------------------------------------------------------
MaxCollisionOps == 6     \* public mutating calls in one behaviour of CollisionSpec

\* 1 and 3 are congruent modulo MAX_PRICE_LEVELS
CollisionPrices == {1, 1 + MAX_PRICE_LEVELS}

CollisionStep == nops < MaxCollisionOps /\ nops' = nops + 1

CollisionAddOrder ==
  \E id \in OrderHandles, p \in CollisionPrices :
    /\ CollisionStep
    /\ Install(addOrder(Book, id, p, 1, "BUY"))
    /\ lastOp' = Call("addOrder", id, IsLive(Book, id))

CollisionDeleteOrder ==
  \E id \in OrderHandles :
    /\ CollisionStep
    /\ Install(deleteOrder(Book, id, "BUY"))
    /\ lastOp' = Call("deleteOrder", id, IsLive(Book, id))

CollisionNext == CollisionAddOrder \/ CollisionDeleteOrder

CollisionSpec == Init /\ [][CollisionNext]_vars

\* ------------------------------------------------------------------------
\* C31.  After any sequence of calls every level in a side's level list has
\* order_count >= 1 and a non-empty FIFO.
\* ------------------------------------------------------------------------
C31_NoEmptyLevels ==
  \A l \in AllLevels(Book) :
    /\ Lvl(Book, l).order_count >= 1
    /\ Lvl(Book, l).first_order # NULL


\* ------------------------------------------------------------------------
\* C32.  No reference to a freed record stays reachable: the order index,
\* the price index, the heads of the two level lists and the links and FIFO
\* heads of allocated levels and orders name allocated pool slots only, and
\* no pool slot is on a free stack twice.
\* ------------------------------------------------------------------------
NoDuplicates(sq) == \A i, j \in DOMAIN sq : sq[i] = sq[j] => i = j

RefsAllocated(refs, pool) == refs \ {NULL} \subseteq Allocated(pool)

C32_NoDanglingReferences ==
  /\ RefsAllocated({order_map_[i] : i \in DOMAIN order_map_}, order_pool_)
  /\ RefsAllocated({price_level_map_[i] : i \in DOMAIN price_level_map_}, level_pool_)
  /\ RefsAllocated({bids_, asks_}, level_pool_)
  /\ \A l \in Allocated(level_pool_) :
       /\ RefsAllocated({Lvl(Book, l).next, Lvl(Book, l).prev}, level_pool_)
       /\ RefsAllocated({Lvl(Book, l).first_order}, order_pool_)
  /\ \A o \in Allocated(order_pool_) :
       RefsAllocated({Ord(Book, o).next, Ord(Book, o).prev}, order_pool_)
  /\ NoDuplicates(order_pool_.free_)
  /\ NoDuplicates(level_pool_.free_)


\* ------------------------------------------------------------------------
\* C38.  addOrder, modifyOrder and deleteOrder leave the trade window as it
\* is (retained trades, volume, amount, price range, median), and
\* evictExpiredTrades leaves every order, level, index and BBO field as it is.
\* ------------------------------------------------------------------------
OrderCalls == {"addOrder", "modifyOrder", "deleteOrder"}

C38_FrameEffects ==
  [][/\ lastOp'.op \in OrderCalls => window_stats_' = window_stats_
     /\ \A g \in GridTimes :
          BookPart(evictExpiredTrades(Book, g)) = BookPart(Book)]_vars

\* a live order was modified while trades are retained and the book holds a
\* level, and an eviction at some grid time would drop a trade
C38_Witness ==
  /\ lastOp.op = "modifyOrder"
  /\ lastOp.live
  /\ window_stats_.count_ > 0
  /\ AllLevels(Book) # {}
  /\ bbo_ # NoBBO
  /\ \E g \in GridTimes :
       evictExpiredTrades(Book, g).window_stats_.count_ < window_stats_.count_


\* ------------------------------------------------------------------------
\* C37.  With trades recorded in time order (fewer than MAX_TRADES, none
\* evicted yet) and two evictions at non-decreasing grid times, the window
\* after the second eviction retains every recorded trade whose second lies
\* in [current_seconds - WINDOW_SECONDS, current_seconds) of the second grid
\* time: the first eviction drops no trade of the later window.
\* ------------------------------------------------------------------------
\* grid times whose conversion succeeds
ConvertingGridTimes == GridTimes \ {BadGridTime}

\* every trade recorded since the last clear is retained, none was overwritten
NothingEvictedYet(w) == w.count_ = w.head_

InWindowOf(w, i, g) ==
  /\ w.timestamps_[i] >= yyyymmddhhmmssToUnixSeconds(g) - WINDOW_SECONDS
  /\ w.timestamps_[i] < yyyymmddhhmmssToUnixSeconds(g)

C37_EarlierEvictionKeepsLaterWindow ==
  NothingEvictedYet(window_stats_) =>
    \A g1, g2 \in ConvertingGridTimes :
      yyyymmddhhmmssToUnixSeconds(g1) <= yyyymmddhhmmssToUnixSeconds(g2) =>
        LET w2 == evictExpiredTrades(evictExpiredTrades(Book, g1), g2).window_stats_
        IN \A i \in RetainedSlots(window_stats_) :
             InWindowOf(window_stats_, i, g2) => i \in RetainedSlots(w2)


\* ------------------------------------------------------------------------
\* The ring window driven through its public interface
\* ------------------------------------------------------------------------
MaxRingOps == 6          \* public calls in one behaviour of RingSpec

\* trades in second 1 and in second 2
RingTradeTimes == {NS_PER_SEC + 1, 2 * NS_PER_SEC + 1}

\* 00:00:02 and 00:00:03 of 1970-01-01, and the time mktime returns -1 for
RingGridTimes == {GridTime(1970, 1, 1, 0, 0, s) : s \in 2..3} \cup {BadGridTime}

RingStep == nops < MaxRingOps /\ nops' = nops + 1

RingUnchanged == UNCHANGED <<bookVars, tieredVars, treeVars, implVars>>

\* the second of the trade recorded last (0 before the first)
RingLastTradeTime(w) == w.timestamps_[(w.head_ + RING_MAX_TRADES - 1) % RING_MAX_TRADES]

RingRecordTrade ==
  \E p \in 1..MaxPrice, t \in RingTradeTimes :
    \* trades arrive in time order
    /\ t \div NS_PER_SEC >= RingLastTradeTime(ring_stats_)
    /\ RingStep
    /\ ring_stats_' = ringRecordTrade(ring_stats_, t, p, 1)
    /\ lastOp' = Call("recordTrade", 0, FALSE)
    /\ RingUnchanged

RingEvictExpired ==
  \E g \in RingGridTimes :
    /\ RingStep
    /\ ring_stats_' = ringEvictExpired(ring_stats_, g)
    /\ lastOp' = Call("evictExpired", 0, FALSE)
    /\ RingUnchanged

RingGetMedianPrice ==
  /\ RingStep
  /\ ring_stats_' = ringGetMedianPrice(ring_stats_).stats
  /\ lastOp' = Call("getMedianPrice", 0, FALSE)
  /\ RingUnchanged

RingNext == RingRecordTrade \/ RingEvictExpired \/ RingGetMedianPrice

RingSpec == Init /\ [][RingNext]_vars

\* ------------------------------------------------------------------------
\* C33.  After every recordTrade, evictExpired and getMedianPrice call of
\* the ring window the left heap holds as many entries as the right heap or
\* one more.
\* ------------------------------------------------------------------------
C33_HeapSizesBalanced ==
  ring_stats_.left_heap_size_ - ring_stats_.right_heap_size_ \in {0, 1}


\* ------------------------------------------------------------------------
\* C34.  After any sequence of recordTrade and evictExpired calls (and
\* earlier getMedianPrice calls) the ring window's getMedianPrice returns
\* the median of the prices of the trades it currently retains: the middle
\* one of an odd number, the truncated mean of the two middle ones of an
\* even number, 0 of none.
\* ------------------------------------------------------------------------
\* the ring indices of the retained trades, oldest first
RingRetained(w) == [k \in 1..w.count_ |-> (RingTailIdx(w) + k - 1) % RING_MAX_TRADES]

\* the price that k of the retained trades lie below (ties counted once each)
RingRanked(w, k) ==
  CHOOSE x \in {w.prices_[i] : i \in SeqToSet(RingRetained(w))} :
    /\ Cardinality({j \in 1..w.count_ : w.prices_[RingRetained(w)[j]] < x}) <= k
    /\ Cardinality({j \in 1..w.count_ : w.prices_[RingRetained(w)[j]] <= x}) > k

RingRetainedMedian(w) ==
  IF w.count_ = 0 THEN 0
  ELSE IF w.count_ % 2 = 1 THEN RingRanked(w, w.count_ \div 2)
  ELSE (RingRanked(w, w.count_ \div 2 - 1) + RingRanked(w, w.count_ \div 2)) \div 2

C34_RingMedianOfRetained ==
  ringGetMedianPrice(ring_stats_).result = RingRetainedMedian(ring_stats_)


\* ------------------------------------------------------------------------
\* Impl driven by its reader: one action per iteration of the loop of run()
\* ------------------------------------------------------------------------
MaxFeed == 4             \* messages the reader delivers in one behaviour
MaxMsgTime == 3          \* message and grid times 1..MaxMsgTime

MsgTimes == 1..MaxMsgTime

\* "A" and "D" share the preferred slot 1 with different hashes; the other
\* two have one hash (63, slot 0), as "Aa" and "BB" have in the source
Symbols == {<<1>>, <<4>>, <<1, 32>>, <<2, 1>>}

\* the ascending grid lists
GridLists ==
  {<<a>> : a \in MsgTimes}
    \cup {<<a, b>> : a \in MsgTimes, b \in MsgTimes} \cup {<<1, 2, 3>>}

Ascending(sq) == \A i, j \in DOMAIN sq : i < j => sq[i] < sq[j]

\* void processMessage(msg): the book of the symbol is asked for; the call on
\* the book is recorded in feed_
processMessage(m, msg) == getOrderBook(m, msg.symbol)

\* the constructor, called with a grid list
ImplConstruct ==
  \E grids \in GridLists :
    /\ Ascending(grids)
    /\ nops = 0
    /\ nops' = 1
    /\ impl_' = NewImpl(grids)
    /\ UNCHANGED <<feed_, signals_, bookVars, tieredVars, treeVars, ringVars, lastOp>>

\* the record of one call of signalAllOrderBooks(grids[grid_idx_])
Signal(m, processed) ==
  [grid |-> m.grids[m.grid_idx_ + 1], after |-> processed,
   symbols |-> signalAllOrderBooks(m)]

\* status == ReaderStatus::OK
ImplTick ==
  \E time \in MsgTimes, symbol \in Symbols :
    LET msg == [time |-> time, symbol |-> symbol]
        changed == impl_.last_msg_time_ # 0 /\ time # impl_.last_msg_time_
        due == changed /\ GridDue(impl_)
        m1 == IF due THEN [impl_ EXCEPT !.grid_idx_ = @ + 1] ELSE impl_
        r == processMessage(m1, msg)
    IN \* the feed is in time order
       /\ time >= impl_.last_msg_time_
       /\ nops = 1
       /\ ~impl_.finished
       /\ Len(feed_) < MaxFeed
       /\ signals_' = IF due THEN Append(signals_, Signal(impl_, Len(feed_))) ELSE signals_
       /\ impl_' = [r.impl EXCEPT !.last_msg_time_ = time]
       /\ feed_' = Append(feed_, [time |-> time, symbol |-> symbol, ob |-> r.ob])
       /\ UNCHANGED <<bookVars, tieredVars, treeVars, ringVars, lastOp, nops>>

\* status == ReaderStatus::FINISHED
ImplFinish ==
  /\ nops = 1
  /\ ~impl_.finished
  /\ signals_' = IF GridDue(impl_) THEN Append(signals_, Signal(impl_, Len(feed_)))
                 ELSE signals_
  /\ impl_' = [impl_ EXCEPT !.finished = TRUE]
  /\ UNCHANGED <<feed_, bookVars, tieredVars, treeVars, ringVars, lastOp, nops>>

ImplNext == ImplConstruct \/ ImplTick \/ ImplFinish

ImplSpec == Init /\ [][ImplNext]_vars

\* ------------------------------------------------------------------------
\* C35.  While the feed names at most MAX_ORDER_BOOKS symbols, getOrderBook
\* returns a book for every message, the same book for two messages of one
\* symbol and different books for messages of different symbols, also when
\* symbols share a preferred slot.
\* ------------------------------------------------------------------------
FeedSymbols == {feed_[i].symbol : i \in DOMAIN feed_}

C35_OneBookPerSymbol ==
  Cardinality(FeedSymbols) <= MAX_ORDER_BOOKS =>
    \A i, j \in DOMAIN feed_ :
      /\ feed_[i].ob # NULL
      /\ (feed_[i].symbol = feed_[j].symbol) <=> (feed_[i].ob = feed_[j].ob)

\* ------------------------------------------------------------------------
\* C36.  When run() has ended, every grid time of the ascending grid list
\* that some message of the feed carries has been signalled exactly once,
\* after the last message of that time and before any later message,
\* whether or not the grid times before it matched a message.
\* ------------------------------------------------------------------------
\* the number of messages up to the last one of time g
LastOfTime(g) == CHOOSE i \in DOMAIN feed_ :
                   feed_[i].time = g /\ \A j \in DOMAIN feed_ : feed_[j].time = g => j <= i

SignalsOf(g) == {k \in DOMAIN signals_ : signals_[k].grid = g}

C36_MatchingGridSignalledOnce ==
  impl_.finished =>
    \A n \in DOMAIN impl_.grids :
      LET g == impl_.grids[n]
      IN (\E i \in DOMAIN feed_ : feed_[i].time = g) =>
           /\ Cardinality(SignalsOf(g)) = 1
           /\ \A k \in SignalsOf(g) : signals_[k].after = LastOfTime(g)


\* ------------------------------------------------------------------------
\* C39.  A query call leaves every later query result as it would be
\* without the call: for the ring window, getMedianPrice called after an
\* inserted getMedianPrice call, directly or after one more recordTrade or
\* evictExpired, returns what it returns without the inserted call.
\* ------------------------------------------------------------------------
\* the ring window after an inserted getMedianPrice call
AfterQuery(w) == ringGetMedianPrice(w).stats

\* the two windows answer the next getMedianPrice alike
SameMedian(w1, w2) == ringGetMedianPrice(w1).result = ringGetMedianPrice(w2).result

C39_QueriesDoNotChangeResults ==
  LET w == ring_stats_
  IN /\ SameMedian(w, AfterQuery(w))
     /\ \A g \in RingGridTimes :
          SameMedian(ringEvictExpired(w, g), ringEvictExpired(AfterQuery(w), g))
     /\ \A p \in 1..MaxPrice, t \in RingTradeTimes :
          t \div NS_PER_SEC >= RingLastTradeTime(w) =>
            SameMedian(ringRecordTrade(w, t, p, 1), ringRecordTrade(AfterQuery(w), t, p, 1))

====
